---- MODULE Spec2Model ----
(***************************************************************************)
(* Electromagnetic design calculation of a line-start permanent-magnet     *)
(* synchronous motor: the calculation engine (MotorCalculationEngine), the *)
(* steel lookup tables (SteelDataTables) and the slot-leakage formulas     *)
(* (SlotLeakageCalculator) of src/PMSM_Calculator.py.                      *)
(*                                                                         *)
(* Numbers.  The program computes with Python floats and numpy float64.    *)
(* A number is modelled as a decimal floating-point value m * 10^e with an *)
(* eight-digit mantissa (truncating), together with the distinction the    *)
(* program's behaviour depends on: a zero divisor raises ZeroDivisionError *)
(* when both operands are Python numbers and yields inf/nan (a warning, no *)
(* exception) as soon as one operand is a numpy scalar.                    *)
(*   k = "num"  finite value s * m * 10^e (m = 0, or 10^7 <= m < 10^8)     *)
(*   k = "inf"  infinity of sign s          k = "nan"  not a number        *)
(*   k = "opq"  a numpy float64 whose magnitude is not modelled (results   *)
(*              of arctan, and of arcsin and arccos inside their domain)   *)
(*   k = "err"  the evaluation raised the exception named by x             *)
(*   np         TRUE for a numpy scalar, FALSE for a Python number         *)
(***************************************************************************)
EXTENDS Integers, Sequences, FiniteSets, TLC

Half == 100 * 100
Mant == Half * Half
MantLo == Mant \div 10

Pow10(n) ==
  CASE n = 0 -> 1
    [] n = 1 -> 10
    [] n = 2 -> 100
    [] n = 3 -> 1000
    [] n = 4 -> 10000
    [] n = 5 -> 100000
    [] n = 6 -> 1000000
    [] n = 7 -> 10000000
    [] n = 8 -> 100000000
    [] n = 9 -> 1000000000

\* A raised exception, by the name of its class.
Raised(x) == [k |-> "err", s |-> 1, m |-> 0, e |-> 0, np |-> FALSE, x |-> x]
ZeroDivisionError == Raised("ZeroDivisionError")
KeyError == Raised("KeyError")
AttributeError == Raised("AttributeError")
NaN == [k |-> "nan", s |-> 1, m |-> 0, e |-> 0, np |-> TRUE, x |-> ""]
Opq == [k |-> "opq", s |-> 1, m |-> 0, e |-> 0, np |-> TRUE, x |-> ""]
Inf(s) == [k |-> "inf", s |-> s, m |-> 0, e |-> 0, np |-> TRUE, x |-> ""]
Zero(np) == [k |-> "num", s |-> 1, m |-> 0, e |-> 0, np |-> np, x |-> ""]

\* The finite value s * m * 10^e (m > 0), its mantissa brought to eight
\* digits.
RECURSIVE Norm(_, _, _, _)
Norm(s, m, e, np) ==
  IF m >= Mant THEN Norm(s, m \div 10, e + 1, np)
  ELSE IF m < MantLo THEN Norm(s, m * 10, e - 1, np)
  ELSE [k |-> "num", s |-> s, m |-> m, e |-> e, np |-> np, x |-> ""]

\* The finite value s * m * 10^e (m >= 0), normalised.
Mk(s, m, e, np) == IF m = 0 THEN Zero(np) ELSE Norm(s, m, e, np)

\* The finite value n * 10^e of a signed integer n.
MkInt(n, e, np) == IF n < 0 THEN Norm(-1, -n, e, np) ELSE Mk(1, n, e, np)

\* A Python literal or parameter value: i * 10^e.
Lit(i, e) == MkInt(i, e, FALSE)
\* The same value held as a numpy scalar (an array element).
NpLit(i, e) == MkInt(i, e, TRUE)

IsNum(a) == a.k = "num"
IsZero(a) == a.k = "num" /\ a.m = 0

Neg(a) == IF a.k \in {"num", "inf"} /\ ~IsZero(a) THEN [a EXCEPT !.s = -a.s] ELSE a
Abs(a) == IF a.k \in {"num", "inf"} THEN [a EXCEPT !.s = 1] ELSE a

\* Magnitude order of two normalised non-zero finite values.
MagLess(a, b) == a.e < b.e \/ (a.e = b.e /\ a.m < b.m)

\* a < b as the program's comparison decides it (False when either is nan).
Less(a, b) ==
  CASE a.k \in {"nan", "err"} \/ b.k \in {"nan", "err"} -> FALSE
    [] a.k = "inf" /\ b.k = "inf" -> a.s < b.s
    [] a.k = "inf" /\ b.k = "num" -> a.s < 0
    [] a.k = "num" /\ b.k = "inf" -> b.s > 0
    [] a.k = "num" /\ b.k = "num" ->
         IF IsZero(a) THEN (~IsZero(b) /\ b.s > 0)
         ELSE IF IsZero(b) THEN a.s < 0
         ELSE IF a.s # b.s THEN a.s < b.s
         ELSE IF a.s > 0 THEN MagLess(a, b) ELSE MagLess(b, a)

Equal(a, b) ==
  CASE a.k \in {"nan", "err"} \/ b.k \in {"nan", "err"} -> FALSE
    [] a.k = "inf" /\ b.k = "inf" -> a.s = b.s
    [] a.k = "inf" /\ b.k = "num" -> FALSE
    [] a.k = "num" /\ b.k = "inf" -> FALSE
    [] a.k = "num" /\ b.k = "num" -> a.s = b.s /\ a.m = b.m /\ a.e = b.e

LessEq(a, b) == Less(a, b) \/ Equal(a, b)

\* The sum of two non-zero finite values, hi the one of the larger exponent
\* and d the difference of the exponents, computed with one guard digit.
AddAligned(hi, lo, d, np) ==
  MkInt(hi.s * hi.m * 10
          + (IF d = 0 THEN lo.s * lo.m * 10
             ELSE IF d <= 9 THEN lo.s * (lo.m \div Pow10(d - 1))
             ELSE 0),
        hi.e - 1, np)

\* The sum of two finite values.
AddNum(a, b) ==
  IF IsZero(a) THEN [b EXCEPT !.np = a.np \/ b.np]
  ELSE IF IsZero(b) THEN [a EXCEPT !.np = a.np \/ b.np]
  ELSE IF a.e >= b.e THEN AddAligned(a, b, a.e - b.e, a.np \/ b.np)
  ELSE AddAligned(b, a, b.e - a.e, a.np \/ b.np)

Add(a, b) ==
  CASE a.k = "err" -> a
    [] b.k = "err" -> b
    [] a.k = "nan" \/ b.k = "nan" -> NaN
    [] a.k = "inf" /\ b.k = "inf" -> IF a.s = b.s THEN Inf(a.s) ELSE NaN
    [] a.k = "inf" -> IF b.k = "opq" THEN Opq ELSE Inf(a.s)
    [] b.k = "inf" -> IF a.k = "opq" THEN Opq ELSE Inf(b.s)
    [] a.k = "opq" \/ b.k = "opq" -> Opq
    [] OTHER -> AddNum(a, b)

Sub(a, b) == Add(a, Neg(b))

\* The product of two non-zero finite values: the leading eight digits of
\* the sixteen-digit product of the mantissas, which are multiplied in
\* halves of four digits.  t is the sum of the cross terms and the carry of
\* the low halves, P the leading digits.
MulLead(P, t, s, e, np) ==
  IF P < MantLo THEN Mk(s, P * 10 + (t % Half) \div 1000, e + 7, np) ELSE Mk(s, P, e + 8, np)

MulHalves(a1, a0, b1, b0, t, s, e, np) == MulLead(a1 * b1 + t \div Half, t, s, e, np)

MulNum(a, b) ==
  MulHalves(a.m \div Half, a.m % Half, b.m \div Half, b.m % Half,
            (a.m \div Half) * (b.m % Half) + (a.m % Half) * (b.m \div Half)
              + ((a.m % Half) * (b.m % Half)) \div Half,
            a.s * b.s, a.e + b.e, a.np \/ b.np)

Mul(a, b) ==
  CASE a.k = "err" -> a
    [] b.k = "err" -> b
    [] a.k = "nan" \/ b.k = "nan" -> NaN
    [] a.k = "opq" \/ b.k = "opq" -> Opq
    [] a.k = "inf" /\ b.k = "inf" -> Inf(a.s * b.s)
    [] a.k = "inf" -> IF IsZero(b) THEN NaN ELSE Inf(a.s * b.s)
    [] b.k = "inf" -> IF IsZero(a) THEN NaN ELSE Inf(a.s * b.s)
    [] OTHER -> IF IsZero(a) \/ IsZero(b) THEN Zero(a.np \/ b.np) ELSE MulNum(a, b)

RECURSIVE LongDiv(_, _, _, _)
LongDiv(r, b, q, n) ==
  IF n = 0 THEN q ELSE LongDiv((r * 10) % b, b, q * 10 + (r * 10) \div b, n - 1)

\* The quotient of two non-zero finite values, to eight digits.
DivNum(a, b) ==
  Mk(a.s * b.s, LongDiv(a.m % b.m, b.m, a.m \div b.m, 8), a.e - b.e - 8, a.np \/ b.np)

\* a / b.  A zero divisor raises ZeroDivisionError between Python numbers and
\* gives inf or nan when a numpy scalar takes part.
Div(a, b) ==
  CASE a.k = "err" -> a
    [] b.k = "err" -> b
    [] IsZero(b) /\ ~a.np /\ ~b.np -> ZeroDivisionError
    [] a.k = "nan" \/ b.k = "nan" -> NaN
    [] a.k = "opq" \/ b.k = "opq" -> Opq
    [] IsZero(b) -> IF IsZero(a) THEN NaN ELSE Inf(a.s)
    [] a.k = "inf" /\ b.k = "inf" -> NaN
    [] a.k = "inf" -> Inf(a.s * b.s)
    [] b.k = "inf" -> Zero(TRUE)
    [] OTHER -> IF IsZero(a) THEN Zero(a.np \/ b.np) ELSE DivNum(a, b)

(***************************************************************************)
(* State.                                                                  *)
(*   params   the parameter record the engine was constructed on           *)
(*   pc       position of calculate_all: "constructed" (not yet called),   *)
(*            "stage" (about to call stage number at), "round" (inside     *)
(*            the for loop of stage 5), "after" (stage 5, past the loop),  *)
(*            "save" (about to save the results), "returned"               *)
(*   executed the stages started so far, in order                          *)
(*   at       the number of the stage to call next                         *)
(*   self     the derived fields held as attributes of the engine instance *)
(*   loop     the locals of stage 5 that live across rounds                *)
(*   results  the engine's results bundle (self.results)                   *)
(*   outcome  what calculate_all returned                                  *)
(*   lookup   the last steel-table lookup made by a direct caller          *)
(*   slot     the slot-leakage calls made by a direct caller on one        *)
(*            geometry                                                     *)
(*   first    what the caller saw after the first of two calls of          *)
(*            calculate_all on the same engine                             *)
(*   peer     a second engine instance, built on its own parameter record, *)
(*            while the other instance is the one taking steps             *)
(*   gui      the desktop shell: last_results, the results text, the plots *)
(*            and what the last action showed or wrote                     *)
(***************************************************************************)
VARIABLES params, pc, executed, at, self, loop, results, outcome, lookup, slot,
          first, peer, gui

vars == <<params, pc, executed, at, self, loop, results, outcome, lookup, slot, first,
          peer, gui>>
engineVars == <<params, pc, executed, at, self, loop, results, outcome>>

(***************************************************************************)
(* SteelDataTables.  B_data is in units of 0.01 T, H_data in A/m, P_data   *)
(* in units of 0.01 W/kg; the entries are numpy array elements.            *)
(***************************************************************************)
steel_names ==
  1 :> "DR510-50" @@ 2 :> "DR420-50" @@ 3 :> "DR490-50" @@ 4 :> "DR550-50"
    @@ 5 :> "DW315-50"

\* A grid that stops one point short of 2.20 T.
B_data_short ==
  <<
     40, 45, 50, 55, 60, 65, 70, 75, 80, 85,
     90, 95, 100, 105, 110, 115, 120, 125, 130, 135,
     140, 145, 150, 155, 160, 165, 170, 175, 180, 185,
     190, 195, 200, 205, 210, 215
  >>

B_data ==
  <<
     40, 45, 50, 55, 60, 65, 70, 75, 80, 85,
     90, 95, 100, 105, 110, 115, 120, 125, 130, 135,
     140, 145, 150, 155, 160, 165, 170, 175, 180, 185,
     190, 195, 200, 205, 210, 215, 220
  >>

H_data_1 ==
  <<
     75, 88, 102, 118, 135, 155, 178, 205, 236, 272,
     314, 363, 420, 486, 563, 653, 758, 880, 1023, 1190,
     1385, 1614, 1882, 2196, 2564, 2995, 3500, 4092, 4785, 5595,
     6540, 7642, 8925, 10420, 12160, 14180, 16530
  >>

H_data_2 ==
  <<
     70, 82, 95, 110, 127, 146, 168, 193, 222, 255,
     293, 337, 388, 447, 516, 596, 689, 798, 925, 1073,
     1246, 1447, 1682, 1955, 2272, 2639, 3065, 3559, 4132, 4796,
     5565, 6453, 7477, 8658, 10020, 11590, 13400
  >>

H_data_3 ==
  <<
     78, 92, 107, 124, 143, 164, 188, 216, 247, 283,
     324, 371, 425, 488, 561, 646, 745, 860, 994, 1150,
     1331, 1540, 1782, 2062, 2386, 2760, 3193, 3693, 4272, 4942,
     5718, 6616, 7655, 8856, 10245, 11850, 13700
  >>

H_data_4 ==
  <<
     85, 100, 117, 136, 157, 181, 208, 239, 274, 314,
     360, 413, 474, 544, 625, 719, 828, 954, 1100, 1268,
     1462, 1686, 1945, 2244, 2590, 2989, 3450, 3982, 4596, 5305,
     6123, 7068, 8160, 9424, 10885, 12575, 14530
  >>

H_data_5 ==
  <<
     80, 95, 110, 125, 140, 160, 180, 200, 225, 250,
     280, 315, 355, 400, 450, 510, 580, 660, 750, 850,
     970, 1100, 1250, 1420, 1620, 1840, 2100, 2400, 2750, 3150,
     3600, 4100, 4700, 5400, 6200, 7100, 8100
  >>

P_data_1 ==
  <<
     40, 60, 80, 100, 130, 160, 200, 250, 310, 380,
     460, 550, 660, 790, 940, 1120, 1330, 1570, 1850, 2170,
     2540, 2960, 3440, 3990, 4620, 5330, 6140, 7050, 8080, 9240,
     10550, 12020, 13680, 15550, 17650, 20020, 22680
  >>

P_data_2 ==
  <<
     30, 50, 70, 90, 120, 150, 190, 240, 290, 360,
     430, 520, 620, 740, 880, 1040, 1230, 1450, 1700, 1990,
     2320, 2700, 3130, 3620, 4180, 4820, 5540, 6360, 7280, 8320,
     9490, 10810, 12290, 13950, 15820, 17920, 20280
  >>

P_data_3 ==
  <<
     45, 65, 85, 110, 140, 170, 210, 260, 320, 390,
     470, 560, 670, 800, 950, 1130, 1340, 1580, 1860, 2180,
     2550, 2970, 3450, 4000, 4630, 5340, 6150, 7070, 8110, 9280,
     10600, 12080, 13740, 15600, 17680, 20010, 22620
  >>

P_data_4 ==
  <<
     50, 70, 90, 120, 150, 190, 230, 280, 340, 410,
     490, 580, 690, 820, 970, 1150, 1360, 1600, 1880, 2200,
     2570, 2990, 3470, 4020, 4650, 5370, 6190, 7120, 8170, 9360,
     10700, 12210, 13900, 15800, 17930, 20320, 23000
  >>

P_data_5 ==
  <<
     50, 70, 90, 120, 150, 190, 240, 300, 370, 450,
     540, 650, 780, 930, 1100, 1290, 1510, 1760, 2040, 2360,
     2720, 3120, 3570, 4070, 4620, 5230, 5900, 6630, 7430, 8300,
     9250, 10280, 11400, 12610, 13920, 15330, 16850
  >>

H_data == 1 :> H_data_1 @@ 2 :> H_data_2 @@ 3 :> H_data_3 @@ 4 :> H_data_4 @@ 5 :> H_data_5

P_data == 1 :> P_data_1 @@ 2 :> P_data_2 @@ 3 :> P_data_3 @@ 4 :> P_data_4 @@ 5 :> P_data_5

\* The arrays as the numbers the program reads from them.
BArray == [i \in 1..Len(B_data) |-> NpLit(B_data[i], -2)]
HArray(steel_type) == [i \in 1..Len(H_data[steel_type]) |-> NpLit(H_data[steel_type][i], 0)]
PArray(steel_type) == [i \in 1..Len(P_data[steel_type]) |-> NpLit(P_data[steel_type][i], -2)]

\* The straight line through the samples j and j + 1 of a table, at x.
Segment(x, xp, fp, j) ==
  Add(Mul(Div(Sub(fp[j + 1], fp[j]), Sub(xp[j + 1], xp[j])), Sub(x, xp[j])), fp[j])

\* An interpolation that runs each interval from its upper sample downwards.
NpInterpDescending(x, xp, fp) ==
  IF x.k # "num" THEN (IF x.k = "err" THEN x ELSE NaN)
  ELSE LET j == CHOOSE i \in 1..(Len(xp) - 1) : LessEq(xp[i], x) /\ Less(x, xp[i + 1])
           slope == Div(Sub(fp[j + 1], fp[j]), Sub(xp[j + 1], xp[j]))
       IN  Sub(fp[j + 1], Mul(slope, Sub(x, xp[j])))

\* np.interp for x strictly inside the grid: the interval holding x, and the
\* straight line through its two samples.
NpInterp(x, xp, fp) ==
  IF x.k # "num" THEN (IF x.k = "err" THEN x ELSE NaN)
  ELSE Segment(x, xp, fp,
               CHOOSE i \in 1..(Len(xp) - 1) : LessEq(xp[i], x) /\ Less(x, xp[i + 1]))

\* An interpolation that extends the end intervals beyond the grid.
linear_interpolation_extrapolating(x_data, y_data, x) ==
  LET n == Len(x_data)
      line(i) == Add(Mul(Div(Sub(y_data[i + 1], y_data[i]), Sub(x_data[i + 1], x_data[i])),
                         Sub(x, x_data[i])), y_data[i])
  IN  IF x.k # "num" THEN x
      ELSE IF Less(x, x_data[1]) THEN line(1)
      ELSE IF LessEq(x_data[n], x) THEN line(n - 1)
      ELSE NpInterp(x, x_data, y_data)

linear_interpolation(x_data, y_data, x) ==
  IF x.k = "err" THEN x
  ELSE IF LessEq(x, x_data[1]) THEN y_data[1]
  ELSE IF LessEq(x_data[Len(x_data)], x) THEN y_data[Len(y_data)]
  ELSE NpInterp(x, x_data, y_data)

\* A lookup that answers an undefined grade from the table of grade 5.
get_BH_curve_defaulting(B, steel_type) ==
  linear_interpolation(BArray, HArray(IF steel_type \in DOMAIN H_data THEN steel_type ELSE 5), B)

\* self.H_data[steel_type] raises KeyError for a key the dictionary lacks.
get_BH_curve(B, steel_type) ==
  IF steel_type \in DOMAIN H_data
  THEN linear_interpolation(BArray, HArray(steel_type), B)
  ELSE KeyError

get_iron_loss(B, steel_type) ==
  IF steel_type \in DOMAIN P_data
  THEN linear_interpolation(BArray, PArray(steel_type), B)
  ELSE KeyError

get_steel_name(steel_type) ==
  IF steel_type \in DOMAIN steel_names THEN steel_names[steel_type] ELSE "unknown"

(***************************************************************************)
(* Arithmetic notation for the formulas below.                             *)
(***************************************************************************)
a ++ b == Add(a, b)
a -- b == Sub(a, b)
a ** b == Mul(a, b)
a // b == Div(a, b)

Sq(x) == Mul(x, x)
Cube(x) == Mul(Mul(x, x), x)

\* np.pi, and np.sqrt(3) (a numpy scalar)
PAI == Lit(31415926, -7)
NpSqrt2 == NpLit(14142135, -7)
NpSqrt3 == NpLit(17320508, -7)

\* The alternating power series of sine and cosine: term is the term in
\* x^n, acc the sum up to it, x2 the square of the argument.
MaxPower == 24
RECURSIVE TrigSeries(_, _, _, _)
TrigSeries(x2, term, n, acc) ==
  IF n >= MaxPower \/ IsZero(term) THEN acc
  ELSE TrigSeries(x2, Neg((term ** x2) // Lit((n + 1) * (n + 2), 0)), n + 2,
                  acc ++ Neg((term ** x2) // Lit((n + 1) * (n + 2), 0)))

\* The numpy functions return a numpy float64 and raise nothing: outside
\* the domain, and at inf and nan, they give nan with a RuntimeWarning.
\* The series is summed for arguments up to 4 in magnitude, which covers
\* every angle the engine forms from its parameters; beyond that, and for
\* the inverse functions, the magnitude is not modelled.
AsNumpy(x) == IF x.k = "num" THEN [x EXCEPT !.np = TRUE] ELSE x

TrigArg(x) == x.k = "num" /\ LessEq(Abs(x), Lit(4, 0))

NpSin(x) ==
  CASE x.k = "err" -> x
    [] x.k \in {"nan", "inf"} -> NaN
    [] TrigArg(x) -> AsNumpy(TrigSeries(x ** x, x, 1, x))
    [] OTHER -> Opq

NpCos(x) ==
  CASE x.k = "err" -> x
    [] x.k \in {"nan", "inf"} -> NaN
    [] TrigArg(x) -> AsNumpy(TrigSeries(x ** x, Lit(1, 0), 0, Lit(1, 0)))
    [] OTHER -> Opq

NpTan(x) ==
  CASE x.k = "err" -> x
    [] x.k \in {"nan", "inf"} -> NaN
    [] TrigArg(x) -> AsNumpy(TrigSeries(x ** x, x, 1, x))
                       // AsNumpy(TrigSeries(x ** x, Lit(1, 0), 0, Lit(1, 0)))
    [] OTHER -> Opq

\* Newton's iteration y <- (y + x / y) / 2 for the square root of x > 0.
SqrtRounds == 8
RECURSIVE SqrtNewton(_, _, _)
SqrtNewton(x, y, n) ==
  IF n = 0 THEN y ELSE SqrtNewton(x, (y ++ (x // y)) // Lit(2, 0), n - 1)

\* A first estimate within a factor of two of the root of the finite x > 0.
SqrtEstimate(x) ==
  IF (x.e + 7) % 2 = 0 THEN NpLit(2, (x.e + 7) \div 2) ELSE NpLit(6, (x.e + 7) \div 2)

\* np.sqrt: nan for a negative argument.
NpSqrt(x) ==
  CASE x.k = "err" -> x
    [] x.k = "nan" -> NaN
    [] x.k = "inf" -> IF x.s > 0 THEN Inf(1) ELSE NaN
    [] x.k = "opq" -> Opq
    [] IsZero(x) -> Zero(TRUE)
    [] x.s < 0 -> NaN
    [] OTHER -> SqrtNewton(x, SqrtEstimate(x), SqrtRounds)

\* np.arctan is defined everywhere.
NpArctan(x) ==
  CASE x.k = "err" -> x
    [] x.k = "nan" -> NaN
    [] OTHER -> Opq

\* The argument lies outside [-1, 1], the domain of arcsine and arccosine.
OutsideUnit(x) == x.k = "inf" \/ (x.k = "num" /\ Less(Lit(1, 0), Abs(x)))

\* np.arcsin and np.arccos: nan outside [-1, 1], no exception.
NpArcsin(x) ==
  CASE x.k = "err" -> x
    [] x.k = "nan" \/ OutsideUnit(x) -> NaN
    [] OTHER -> Opq

NpArccos(x) ==
  CASE x.k = "err" -> x
    [] x.k = "nan" \/ OutsideUnit(x) -> NaN
    [] OTHER -> Opq

(***************************************************************************)
(* SlotLeakageCalculator.calculate_slot_leakage                            *)
(***************************************************************************)
\* The branch of the if/elif chain that a call takes.
\* A dispatch that sends the half-pear profile to the fallback.
SlotBranchSilentFallback(CX, B12) ==
  IF CX = 1 THEN (IF LessEq(Abs(B12 -- Lit(1, 0)), Lit(1, -4)) THEN "pear_unit" ELSE "pear_ratio")
  ELSE IF CX = 3 THEN "round"
  ELSE IF CX = 4 THEN (IF LessEq(Abs(B12 -- Lit(1, 0)), Lit(1, -4)) THEN "shoulder_unit" ELSE "shoulder_ratio")
  ELSE "fallback"

\* A selection that takes the polynomial branch only strictly inside the
\* tolerance.
SlotBranchStrictlyInside(CX, B12) ==
  IF CX = 1 THEN (IF Less(Abs(B12 -- Lit(1, 0)), Lit(1, -4)) THEN "pear_unit" ELSE "pear_ratio")
  ELSE IF CX = 2 THEN "half_pear"
  ELSE IF CX = 3 THEN "round"
  ELSE IF CX = 4 THEN (IF Less(Abs(B12 -- Lit(1, 0)), Lit(1, -4)) THEN "shoulder_unit" ELSE "shoulder_ratio")
  ELSE "fallback"

SlotBranch(CX, B12) ==
  IF CX = 1 THEN (IF LessEq(Abs(B12 -- Lit(1, 0)), Lit(1, -4)) THEN "pear_unit" ELSE "pear_ratio")
  ELSE IF CX = 2 THEN "half_pear"
  ELSE IF CX = 3 THEN "round"
  ELSE IF CX = 4 THEN (IF LessEq(Abs(B12 -- Lit(1, 0)), Lit(1, -4)) THEN "shoulder_unit" ELSE "shoulder_ratio")
  ELSE "fallback"

\* LUMDAS as the taken branch computes it.
SlotFormula(branch, h02, b02, h2, d1, d2, h22, QSX, B12, KRS1, KRS2, KRS3) ==
  CASE branch = "pear_unit" ->
         ((((((Lit(4, 0) ** Cube(QSX)) // Lit(3, 0))
              ++ (((Lit(3, 0) ** PAI) ** Sq(QSX)) // Lit(2, 0)))
              ++ (Lit(4816, -3) ** QSX)) ++ Lit(15377, -4))
            // Sq((Lit(2, 0) ** QSX) ++ (PAI // Lit(2, 0))))
         ++ (h02 // b02)
    [] branch = "pear_ratio" ->
         ((QSX ** ((KRS1 ++ KRS2) ++ KRS3))
            // Sq(((PAI ** (Lit(1, 0) ++ Sq(B12))) // (Lit(8, 0) ** QSX))
                  ++ ((Lit(1, 0) ++ B12) // Lit(2, 0))))
         ++ (h02 // b02)
    [] branch = "half_pear" ->
         ((h2 // d1) ++ ((Lit(2, 0) ** h22) // (Lit(3, 0) ** (d1 ++ d2)))) ++ (h02 // b02)
    [] branch = "round" ->
         Lit(623, -3) ++ (h02 // b02)
    [] branch = "shoulder_unit" ->
         ((((((Sq(PAI) ** QSX) // Lit(16, 0)) ++ ((PAI ** Sq(QSX)) // Lit(2, 0)))
              ++ ((Lit(4, 0) ** Cube(QSX)) // Lit(3, 0)))
            // Sq((Lit(2, 0) ** QSX) ++ (PAI // Lit(4, 0))))
          ++ (h02 // b02))
         ++ ((Lit(2, 0) ** h2) // (b02 ++ d1))
    [] branch = "shoulder_ratio" ->
         (((QSX ** (KRS1 ++ KRS2))
            // Sq((PAI // (Lit(8, 0) ** QSX)) ++ ((Lit(1, 0) ++ B12) // Lit(2, 0))))
          ++ (h02 // b02))
         ++ ((Lit(2, 0) ** h2) // (b02 ++ d1))
    [] branch = "fallback" ->
         h02 // b02

\* A calculator that rejects a selector outside the four profiles.
calculate_slot_leakage_strict(CX, h02, b02, h2, d1, d2, h22, QSX, B12, KRS1, KRS2, KRS3) ==
  IF CX \in 1..4
  THEN SlotFormula(SlotBranch(CX, B12), h02, b02, h2, d1, d2, h22, QSX, B12, KRS1, KRS2, KRS3)
  ELSE Raised("ValueError")

calculate_slot_leakage(CX, h02, b02, h2, d1, d2, h22, QSX, B12, KRS1, KRS2, KRS3) ==
  SlotFormula(SlotBranch(CX, B12), h02, b02, h2, d1, d2, h22, QSX, B12, KRS1, KRS2, KRS3)

\* The call stage 6 makes on the rotor slot of a parameter record: the
\* arguments it derives (the width ratio raises when br1 is zero).
RotorSlotB12(p) == p.br2 // p.br1

RotorSlotLeakage(p) ==
  calculate_slot_leakage(p.CX, p.h02, p.b02, p.hr12, p.br1, p.br2,
                         p.hr12 // Lit(2, 0), Lit(1, 0), RotorSlotB12(p),
                         Lit(5, -1), Lit(3, -1), Lit(2, -1))

(***************************************************************************)
(* MotorParameters: the defaults of the dataclass.  Numbers are Python     *)
(* numbers; the selectors Lv, CX, steel_type, LE, Lev, magnet are plain    *)
(* integers and sks, wgco are strings.                                     *)
(***************************************************************************)
MotorParameters ==
  [PN |-> Lit(15, 0), UN |-> Lit(380, 0), m |-> Lit(3, 0), f |-> Lit(50, 0),
   p |-> Lit(2, 0), cosfi |-> Lit(95, -2), eff |-> Lit(935, -3),
   Tpo |-> Lit(18, -1), Ist |-> Lit(9, 0), Tst |-> Lit(2, 0),
   D1 |-> Lit(260, 0), Di1 |-> Lit(170, 0), La |-> Lit(190, 0),
   g |-> Lit(65, -2), g12 |-> Lit(15, -2), Q1 |-> Lit(36, 0), Q2 |-> Lit(32, 0),
   Di2 |-> Lit(60, 0),
   b01 |-> Lit(38, -1), h01 |-> Lit(8, -1), b1 |-> Lit(77, -1),
   ALFA1 |-> Lit(30, 0), R1 |-> Lit(51, -1), h12 |-> Lit(152, -1), sks |-> "Y",
   Lv |-> 1, b02 |-> Lit(2, 0), h02 |-> Lit(8, -1), br1 |-> Lit(64, -1),
   br2 |-> Lit(55, -1), hr12 |-> Lit(15, 0), ALFA2 |-> Lit(30, 0),
   AR |-> Lit(180, 0),
   CX |-> 1, steel_type |-> 5,
   LE |-> 2, a |-> Lit(1, 0), Ns |-> Lit(13, 0), Nt1 |-> Lit(2, 0),
   d11 |-> Lit(120, -2), Nt2 |-> Lit(3, 0), d12 |-> Lit(125, -2),
   d |-> Lit(15, 0), y |-> Lit(9, 0), wgco |-> "Y",
   Lev |-> 1, magnet |-> 1, Br0 |-> Lit(115, -2), Hc0 |-> Lit(875, 0),
   hM |-> Lit(53, -1), bM |-> Lit(110, 0), LM |-> Lit(190, 0),
   ROUm |-> Lit(7400, 0), SIGMA0 |-> Lit(128, -2),
   t |-> Lit(75, 0), pfwl |-> Lit(107, -4), psl |-> Lit(15, -3), Kq |-> Lit(36, -2)]

\* self.MUO = 4.0 * self.PAI * 1e-7
MUO == (Lit(4, 0) ** PAI) ** Lit(1, -7)

(***************************************************************************)
(* A method is given statement by statement: method(i, p, s, v) is its     *)
(* i-th assignment, evaluated on the parameters p, the attributes s of the *)
(* engine and the locals v of the call as the statements before it left    *)
(* them.  A Field is an assignment to an attribute of the engine, a Local  *)
(* one to a local variable, an Entry one key of the dictionary literal     *)
(* under construction; Skip is a statement under an if whose test is       *)
(* false, End the position after the method's last statement.  Exec (below *)
(* the methods) runs the statements in order and stops at the first whose  *)
(* right-hand side raises: what was assigned before it stays assigned.     *)
(***************************************************************************)
Field(name, x) == [op |-> "field", n |-> name, v |-> x]
Local(name, x) == [op |-> "local", n |-> name, v |-> x]
Entry(name, x) == [op |-> "entry", n |-> name, v |-> x]
Skip == [op |-> "skip", n |-> "", v |-> Zero(FALSE)]
End == [op |-> "end", n |-> "", v |-> Zero(FALSE)]

\* Reading an attribute; one that was never assigned raises AttributeError.
Get(s, name) == IF name \in DOMAIN s THEN s[name] ELSE AttributeError

\* No method of the engine has more statements than this.
MaxStatements == 72

\* A call in progress: the attributes, the locals, the dictionary entries
\* built so far, the names of the attributes the call has assigned, and the
\* exception that ended it, if any.
Frame(s, v) ==
  [self |-> s, locals |-> v, entries |-> << >>, wrote |-> {}, raised |-> FALSE, exc |-> ""]

\* f with name bound to x.
Put(f, name, x) == [k \in (DOMAIN f) \cup {name} |-> IF k = name THEN x ELSE f[k]]

\* The effect of one statement on a call in progress.
Step(st, stmt) ==
  CASE st.raised \/ stmt.op \in {"skip", "end"} -> st
    [] stmt.v.k = "err" -> [st EXCEPT !.raised = TRUE, !.exc = stmt.v.x]
    [] stmt.op = "field" -> [st EXCEPT !.self = Put(@, stmt.n, stmt.v),
                                       !.wrote = @ \cup {stmt.n}]
    [] stmt.op = "local" -> [st EXCEPT !.locals = Put(@, stmt.n, stmt.v)]
    [] stmt.op = "entry" -> [st EXCEPT !.entries = Put(@, stmt.n, stmt.v)]

(***************************************************************************)
(* Stage 1                                                                 *)
(***************************************************************************)
\* A stage 1 that takes a third of the line voltage for the star winding.
calculate_basic_parameters_third(i, p, s, v) ==
  CASE i = 1 -> Field("OMGs", ((Lit(2, 0) ** PAI) ** p.f) // p.p)
    [] i = 2 -> Field("nN", (Lit(60, 0) ** p.f) // p.p)
    [] i = 3 -> Local("UN_calc", IF p.wgco = "Y" THEN p.UN // NpLit(3, 0) ELSE p.UN)
    [] i = 4 -> Field("IN",
                  (p.PN ** Lit(1000, 0)) // (((p.m ** v.UN_calc) ** p.eff) ** p.cosfi))
    [] i = 5 -> Field("TN",
                  (p.PN ** Lit(1000, 0)) // (((Lit(2, 0) ** PAI) ** Get(s, "nN")) //
                  Lit(60, 0)))
    [] i = 6 -> Field("TAO", (PAI ** p.Di1) // (Lit(2, 0) ** p.p))
    [] OTHER -> End

calculate_basic_parameters(i, p, s, v) ==
  CASE i = 1 -> Field("OMGs", ((Lit(2, 0) ** PAI) ** p.f) // p.p)
    [] i = 2 -> Field("nN", (Lit(60, 0) ** p.f) // p.p)
    [] i = 3 -> Local("UN_calc", IF p.wgco = "Y" THEN p.UN // NpSqrt3 ELSE p.UN)
    [] i = 4 -> Field("IN",
                  (p.PN ** Lit(1000, 0)) // (((p.m ** v.UN_calc) ** p.eff) ** p.cosfi))
    [] i = 5 -> Field("TN",
                  (p.PN ** Lit(1000, 0)) // (((Lit(2, 0) ** PAI) ** Get(s, "nN")) //
                  Lit(60, 0)))
    [] i = 6 -> Field("TAO", (PAI ** p.Di1) // (Lit(2, 0) ** p.p))
    [] OTHER -> End

(***************************************************************************)
(* Stage 2                                                                 *)
(***************************************************************************)
calculate_winding_parameters(i, p, s, v) ==
  CASE i = 1 -> Field("N", (p.Q1 ** p.Ns) // ((Lit(2, 0) ** p.m) ** p.a))
    [] i = 2 -> Local("QPM", p.Q1 // ((Lit(2, 0) ** p.m) ** p.p))
    [] i = 3 -> Local("BETA",
                  IF p.LE \notin {1, 2, 3}
                  THEN p.y // (p.m ** v.QPM)
                  ELSE Lit(1, 0))
    [] i = 4 -> Field("Kp1", NpSin((v.BETA ** PAI) // Lit(2, 0)))
    [] i = 5 -> Field("Kd1",
                  NpSin(PAI // (Lit(2, 0) ** p.m)) // (v.QPM ** NpSin(PAI // ((Lit(2, 0) **
                  p.m) ** v.QPM))))
    [] i = 6 -> IF p.sks = "Y" THEN Local("t1", (PAI ** p.Di1) // p.Q1) ELSE Skip
    [] i = 7 -> IF p.sks = "Y" THEN Local("tsk", (p.Q1 ** v.t1) // (p.Q1 ++ p.p)) ELSE Skip
    [] i = 8 -> IF p.sks = "Y" THEN Local("ALFAs",
                  (v.tsk // Get(s, "TAO")) ** PAI) ELSE Skip
    [] i = 9 -> Field("Ksk1",
                  IF p.sks = "Y"
                  THEN (Lit(2, 0) ** NpSin(v.ALFAs // Lit(2, 0))) // v.ALFAs
                  ELSE Lit(1, 0))
    [] i = 10 -> Field("Kdp", (Get(s, "Kp1") ** Get(s, "Kd1")) ** Get(s, "Ksk1"))
    [] OTHER -> End

(***************************************************************************)
(* Stage 3                                                                 *)
(***************************************************************************)
calculate_geometry_parameters(i, p, s, v) ==
  CASE i = 1 -> Field("t1", (PAI ** p.Di1) // p.Q1)
    [] i = 2 -> Field("D2", p.Di1 -- (Lit(2, 0) ** p.g))
    [] i = 3 -> Field("t2", (PAI ** Get(s, "D2")) // p.Q2)
    [] i = 4 -> Field("hs1",
                  ((p.b1 -- p.b01) // Lit(2, 0)) ** NpTan((p.ALFA1 ** PAI) // Lit(180, 0)))
    [] i = 5 -> Field("bt1",
                  (((p.Di1 ++ (Lit(2, 0) ** (p.h01 ++ p.h12))) ** PAI) // p.Q1) --
                  (Lit(2, 0) ** p.R1))
    [] i = 6 -> Field("hj1",
                  ((p.D1 -- p.Di1) // Lit(2, 0)) -- ((p.h01 ++ p.h12) ++ ((Lit(2, 0) **
                  p.R1) // Lit(3, 0))))
    [] i = 7 -> Field("ht1", p.h12 ++ (p.R1 // Lit(3, 0)))
    [] i = 8 -> Field("Lj1", (PAI ** (p.D1 -- Get(s, "hj1"))) // (Lit(4, 0) ** p.p))
    [] i = 9 -> Field("hr1",
                  ((p.br1 -- p.b02) ** NpTan((p.ALFA2 ** PAI) // Lit(180, 0))) // Lit(2, 0))
    [] i = 10 -> Field("hr2", p.hr12 -- Get(s, "hr1"))
    [] i = 11 -> Field("hr", p.h02 ++ p.hr12)
    [] i = 12 -> Field("AB",
                  (((p.b02 ++ p.br1) ** Get(s, "hr1")) // Lit(2, 0)) ++ (((p.br1 ++ p.br2)
                  ** Get(s, "hr2")) // Lit(2, 0)))
    [] i = 13 -> Field("hj2",
                  IF p.Lev = 1
                  THEN (((Get(s, "D2") -- p.Di2) // Lit(2, 0)) -- Get(s, "hr")) -- p.hM
                  ELSE p.bM)
    [] i = 14 -> Field("bt2",
                  (((Get(s, "D2") -- (Lit(2, 0) ** (p.h02 ++ p.hr12))) ** PAI) // p.Q2) --
                  p.br2)
    [] i = 15 -> Field("DR", (Get(s, "D2") -- Get(s, "hr")) -- Lit(2, 0))
    [] i = 16 -> Field("Lj2", (PAI ** (p.Di2 ++ Get(s, "hj2"))) // (Lit(4, 0) ** p.p))
    [] i = 17 -> Field("Vt1",
                  (((p.Q1 ** p.La) ** Lit(93, -2)) ** Get(s, "ht1")) ** Get(s, "bt1"))
    [] i = 18 -> Field("Vj1",
                  (((PAI ** (p.D1 -- Get(s, "hj1"))) ** p.La) ** Lit(93, -2)) **
                  Get(s, "hj1"))
    [] OTHER -> End

(***************************************************************************)
(* Stage 4                                                                 *)
(***************************************************************************)
\* Stage 4 with the coercivity of ferrite corrected downwards as well.
calculate_magnet_parameters_same_sign(i, p, s, v) ==
  CASE i = 1 -> Local("TEMB",
                  IF p.magnet = 1
                  THEN Lit(1, 0) -- ((p.t -- Lit(20, 0)) ** Lit(12, -4))
                  ELSE Lit(1, 0) -- ((p.t -- Lit(20, 0)) ** Lit(19, -4)))
    [] i = 2 -> Local("TEMH",
                  IF p.magnet = 1
                  THEN v.TEMB
                  ELSE Lit(1, 0) -- ((p.t -- Lit(20, 0)) ** Lit(4, -3)))
    [] i = 3 -> Field("Br", v.TEMB ** p.Br0)
    [] i = 4 -> Field("Hc", (v.TEMH ** p.Hc0) ** Lit(1000, 0))
    [] i = 5 -> Field("MUr", p.Br0 // ((MUO ** p.Hc0) ** Lit(1000, 0)))
    [] i = 6 -> Field("Am", IF p.Lev = 1 THEN p.bM ** p.LM ELSE (Lit(2, 0) ** p.bM) ** p.LM)
    [] i = 7 -> Field("Vm", (((Lit(2, 0) ** p.p) ** p.LM) ** p.bM) ** p.hM)
    [] i = 8 -> Field("mm", (p.ROUm ** Get(s, "Vm")) // Lit(1, 9))
    [] i = 9 -> Field("FF", (p.hM ** Get(s, "Hc")) // Lit(1000, 0))
    [] i = 10 -> Field("FAIM", Get(s, "Am") ** Get(s, "Br"))
    [] OTHER -> End

calculate_magnet_parameters(i, p, s, v) ==
  CASE i = 1 -> Local("TEMB",
                  IF p.magnet = 1
                  THEN Lit(1, 0) -- ((p.t -- Lit(20, 0)) ** Lit(12, -4))
                  ELSE Lit(1, 0) -- ((p.t -- Lit(20, 0)) ** Lit(19, -4)))
    [] i = 2 -> Local("TEMH",
                  IF p.magnet = 1
                  THEN v.TEMB
                  ELSE Lit(1, 0) ++ ((p.t -- Lit(20, 0)) ** Lit(4, -3)))
    [] i = 3 -> Field("Br", v.TEMB ** p.Br0)
    [] i = 4 -> Field("Hc", (v.TEMH ** p.Hc0) ** Lit(1000, 0))
    [] i = 5 -> Field("MUr", p.Br0 // ((MUO ** p.Hc0) ** Lit(1000, 0)))
    [] i = 6 -> Field("Am", IF p.Lev = 1 THEN p.bM ** p.LM ELSE (Lit(2, 0) ** p.bM) ** p.LM)
    [] i = 7 -> Field("Vm", (((Lit(2, 0) ** p.p) ** p.LM) ** p.bM) ** p.hM)
    [] i = 8 -> Field("mm", (p.ROUm ** Get(s, "Vm")) // Lit(1, 9))
    [] i = 9 -> Field("FF", (p.hM ** Get(s, "Hc")) // Lit(1000, 0))
    [] i = 10 -> Field("FAIM", Get(s, "Am") ** Get(s, "Br"))
    [] OTHER -> End

(***************************************************************************)
(* calculate_gap_factor                                                    *)
(***************************************************************************)
\* ttt / (ttt - b0 * b0): the factor of one side of the gap.
GapSide(ttt, b0) == ttt // (ttt -- (b0 ** b0))

calculate_gap_factor(p, s) ==
  GapSide(Get(s, "t1") ** ((Lit(44, -1) ** p.g) ++ (Lit(75, -2) ** p.b01)), p.b01)
    ** GapSide(Get(s, "t2") ** ((Lit(44, -1) ** p.g) ++ (Lit(75, -2) ** p.b02)), p.b02)

(***************************************************************************)
(* Stage 5: the initial estimate, one round of the for loop, and the part  *)
(* after the loop.                                                         *)
(***************************************************************************)
MaxRounds == 30
RFAi == Lit(64, -2)
KFe == Lit(93, -2)
Tolerance == Lit(1, -4)

\* An estimate that starts the iteration from zero.
NoLoadInitialEstimateZero(p) == Zero(FALSE) ** p.SIGMA0

NoLoadInitialEstimate(p) ==
  ((Lit(95, -2) ** p.SIGMA0) ** p.hM) // ((p.SIGMA0 ** p.hM) ++ p.g)

\* The assignments of one round; the local bm01 is the iterate it starts from.
NoLoadRound(i, p, s, v) ==
  CASE i = 1 -> Local("FI01", ((v.bm01 ** Get(s, "FAIM")) // p.SIGMA0) ** Lit(1, -6))
    [] i = 2 -> Field("Bg",
                  (v.FI01 // ((RFAi ** Get(s, "TAO")) ** (p.La ++ (Lit(2, 0) ** p.g)))) **
                  Lit(1, 6))
    [] i = 3 -> Field("Bts",
                  ((Get(s, "Bg") ** Get(s, "t1")) ** (p.La ++ (Lit(2, 0) ** p.g))) // ((p.La
                  ** KFe) ** Get(s, "bt1")))
    [] i = 4 -> Field("Bj1",
                  (v.FI01 // (((Lit(2, 0) ** p.La) ** KFe) ** Get(s, "hj1"))) ** Lit(1, 6))
    [] i = 5 -> Field("Btr",
                  ((Get(s, "Bg") ** Get(s, "t2")) ** (p.La ++ (Lit(2, 0) ** p.g))) // ((p.La
                  ** KFe) ** Get(s, "bt2")))
    [] i = 6 -> Field("Bj2",
                  (v.FI01 // (((Lit(2, 0) ** p.La) ** KFe) ** Get(s, "hj2"))) ** Lit(1, 6))
    [] i = 7 -> Local("Hts", get_BH_curve(Get(s, "Bts"), p.steel_type))
    [] i = 8 -> Local("Hjs", get_BH_curve(Get(s, "Bj1"), p.steel_type))
    [] i = 9 -> Local("Htr", get_BH_curve(Get(s, "Btr"), p.steel_type))
    [] i = 10 -> Local("Hjr", get_BH_curve(Get(s, "Bj2"), p.steel_type))
    [] i = 11 -> Local("Ft1", (v.Hts ** Get(s, "ht1")) // Lit(10, 0))
    [] i = 12 -> Local("Fj1", (v.Hjs ** Get(s, "Lj1")) // Lit(10, 0))
    [] i = 13 -> Local("Ft2", (v.Htr ** Get(s, "hr")) // Lit(10, 0))
    [] i = 14 -> Local("Fj2", (v.Hjr ** Get(s, "Lj2")) // Lit(10, 0))
    [] i = 15 -> Local("Fg",
                  ((Get(s, "Bg") // MUO) ** (p.g12 ++ (p.g ** calculate_gap_factor(p, s))))
                  ** Lit(1, -3))
    [] i = 16 -> Local("SUMF",
                  Lit(2, 0) ** ((((v.Fg ++ v.Ft1) ++ v.Fj1) ++ v.Ft2) ++ v.Fj2))
    [] i = 17 -> Local("NUMDAm", v.FI01 // v.SUMF)
    [] i = 18 -> Local("LUMDAm",
                  IF p.Lev = 1
                  THEN (((v.NUMDAm ** Lit(2, 0)) ** p.hM) ** Lit(1, -3)) // (((Get(s, "MUr")
                  ** MUO) ** Get(s, "Am")) ** Lit(1, -6))
                  ELSE ((v.NUMDAm ** p.hM) ** Lit(1, -3)) // (((Get(s, "MUr") ** MUO) **
                  Get(s, "Am")) ** Lit(1, -6)))
    [] i = 19 -> Local("LUMDAn", p.SIGMA0 ** v.LUMDAm)
    [] i = 20 -> Local("bm0", v.LUMDAn // (v.LUMDAn ++ Lit(1, 0)))
    [] i = 21 -> Local("change", Abs((v.bm0 -- v.bm01) // v.bm0))
    [] OTHER -> End

\* A test that never passes.
ConvergenceTestNever(change) == FALSE

\* The convergence test of line 555.
ConvergenceTest(change) == Less(change, Tolerance)

\* An update that takes the new value undamped.
DampedUpdateUndamped(bm01, bm0) == bm0

\* The damped update of line 559.
DampedUpdate(bm01, bm0) == (bm01 ++ bm0) // Lit(2, 0)

\* The assignments after the loop; the locals are those the last round left.
NoLoadPostLoop(i, p, s, v) ==
  CASE i = 1 -> Field("bm0", v.bm0)
    [] i = 2 -> Field("LUMDAn", v.LUMDAn)
    [] i = 3 -> Field("LUMDAs", (p.SIGMA0 -- Lit(1, 0)) ** v.LUMDAm)
    [] i = 4 -> Field("FI0", ((v.bm0 ** Get(s, "FAIM")) // p.SIGMA0) ** Lit(1, -6))
    [] i = 5 -> Local("Kf", (Lit(4, 0) // PAI) ** NpSin((PAI ** RFAi) // Lit(2, 0)))
    [] i = 6 -> Field("Bg1",
                  ((v.Kf ** v.FI01) // ((RFAi ** Get(s, "TAO")) ** (p.La ++ (Lit(2, 0) **
                  p.g)))) ** Lit(1, 6))
    [] i = 7 -> Local("KFI",
                  ((Lit(8, 0) // (PAI ** PAI)) // RFAi) ** NpSin((RFAi ** PAI) //
                  Lit(2, 0)))
    [] i = 8 -> Field("E0",
                  ((((Lit(444, -2) ** p.f) ** Get(s, "N")) ** Get(s, "Kdp")) **
                  Get(s, "FI0")) ** v.KFI)
    [] i = 9 -> Local("Fgg",
                  (((Get(s, "Bg") // MUO) ** p.g) ** calculate_gap_factor(p, s)) **
                  Lit(1, -3))
    [] i = 10 -> Field("Kst", ((v.Fgg ++ v.Ft1) ++ v.Ft2) // v.Fgg)
    [] OTHER -> End

(***************************************************************************)
(* Stage 6                                                                 *)
(***************************************************************************)
\* A membership or equality test on a Python integer parameter.
IsInt(v, i) == Equal(v, Lit(i, 0))

calculate_impedances(i, p, s, v) ==
  CASE i = 1 -> Local("s11", ((p.Nt1 ** PAI) ** Sq(p.d11)) // Lit(4, 0))
    [] i = 2 -> Local("s12", ((p.Nt2 ** PAI) ** Sq(p.d12)) // Lit(4, 0))
    [] i = 3 -> Local("ROUCu",
                  Lit(175, -4) ** (Lit(1, 0) ++ (Lit(4, -3) ** (p.t -- Lit(15, 0)))))
    [] i = 4 -> Local("sss",
                  IF p.LE \in {1, 2, 3}
                  THEN (IF IsInt(p.p, 1)
                  THEN Lit(58, -2)
                  ELSE IF IsInt(p.p, 2) \/ IsInt(p.p, 3)
                  THEN Lit(6, -1)
                  ELSE Lit(625, -3))
                  ELSE (Lit(1, 0) // NpSqrt(Lit(1, 0) -- Sq((p.b1 ++ (Lit(2, 0) ** p.R1)) //
                  ((p.b1 ++ (Lit(2, 0) ** p.R1)) ++ (Lit(2, 0) ** Get(s, "bt1")))))) //
                  Lit(2, 0))
    [] i = 5 -> Local("TAOy",
                  ((PAI // Lit(2, 0)) // p.p) ** ((((p.Di1 ++ (Lit(2, 0) ** (p.h01 ++
                  Get(s, "hs1")))) ++ p.h12) -- Get(s, "hs1")) ++ p.R1))
    [] i = 6 -> Local("TAOy",
                  IF p.LE \in {1, 2}
                  THEN (((PAI // Lit(2, 0)) // p.p) ** Lit(85, -2)) ** ((((p.Di1 ++
                  (Lit(2, 0) ** (p.h01 ++ Get(s, "hs1")))) ++ p.h12) -- Get(s, "hs1")) ++
                  p.R1)
                  ELSE v.TAOy)
    [] i = 7 -> Local("LEIP", v.sss ** v.TAOy)
    [] i = 8 -> Local("Lc", Lit(2, 0) ** (p.La ++ (Lit(2, 0) ** (p.d ++ v.LEIP))))
    [] i = 9 -> Field("fd",
                  (v.LEIP ** (p.b1 ++ (Lit(2, 0) ** p.R1))) // ((p.b1 ++ (Lit(2, 0) **
                  p.R1)) ++ (Lit(2, 0) ** Get(s, "bt1"))))
    [] i = 10 -> Field("Ls", Lit(2, 0) ** (p.d ++ v.LEIP))
    [] i = 11 -> Field("Rs",
                  ((v.ROUCu ** v.Lc) ** Get(s, "N")) // ((p.a ** (v.s11 ++ v.s12)) **
                  Lit(1000, 0)))
    [] i = 12 -> Local("Cx",
                  ((((Sq(Lit(4, 0) ** PAI) ** Lit(1, -10)) ** p.f) ** (p.La ++ (Lit(2, 0) **
                  p.g))) ** Sq(Get(s, "N") ** Get(s, "Kdp"))) // p.p)
    [] i = 13 -> Local("AU1",
                  (p.h01 // p.b01) ++ ((Lit(2, 0) ** Get(s, "hs1")) // (p.b01 ++ p.b1)))
    [] i = 14 -> Local("AL1", (Lit(2, 0) ** p.h12) // (p.b01 ++ p.b1))
    [] i = 15 -> Local("QPM", p.Q1 // ((Lit(2, 0) ** p.m) ** p.p))
    [] i = 16 -> Local("BETA_calc",
                  IF p.LE \notin {1, 2, 3}
                  THEN p.y // (p.m ** v.QPM)
                  ELSE Lit(1, 0))
    [] i = 17 -> Local("BETA1",
                  IF Less(Lit(1, 0), v.BETA_calc)
                  THEN Lit(2, 0) -- v.BETA_calc
                  ELSE v.BETA_calc)
    [] i = 18 -> Local("KU1",
                  IF LessEq((Lit(2, 0) // Lit(3, 0)), v.BETA1)
                  THEN ((Lit(3, 0) ** v.BETA1) ++ Lit(1, 0)) // Lit(4, 0)
                  ELSE IF Less((Lit(1, 0) // Lit(3, 0)), v.BETA1)
                  THEN ((Lit(6, 0) ** v.BETA1) -- Lit(1, 0)) // Lit(4, 0)
                  ELSE Lit(75, -2) ** v.BETA1)
    [] i = 19 -> Local("KL1",
                  IF LessEq((Lit(2, 0) // Lit(3, 0)), v.BETA1)
                  THEN ((Lit(9, 0) ** v.BETA1) ++ Lit(7, 0)) // Lit(16, 0)
                  ELSE IF Less((Lit(1, 0) // Lit(3, 0)), v.BETA1)
                  THEN ((Lit(18, 0) ** v.BETA1) ++ Lit(1, 0)) // Lit(16, 0)
                  ELSE ((Lit(9, 0) ** v.BETA1) ++ Lit(4, 0)) // Lit(16, 0))
    [] i = 20 -> Local("As1", (v.KU1 ** v.AU1) ++ (v.KL1 ** v.AL1))
    [] i = 21 -> Local("Xs1",
                  (((((p.La ** p.m) ** Lit(2, 0)) ** p.p) ** v.As1) // (((p.La ++ (Lit(2, 0)
                  ** p.g)) ** Sq(Get(s, "Kdp"))) ** p.Q1)) ** v.Cx)
    [] i = 22 -> Local("SUMR", (Sq(PAI) ** Sq((Lit(2, 0) ** p.p) // p.Q1)) // Lit(12, 0))
    [] i = 23 -> Local("Xd1",
                  (((p.m ** Get(s, "TAO")) ** v.SUMR) // (((Sq(PAI) **
                  calculate_gap_factor(p, s)) ** p.g) ** Get(s, "Kst"))) ** v.Cx)
    [] i = 24 -> Local("XE1",
                  IF p.LE = 0
                  THEN ((Lit(12, -1) ** (p.d ++ (Lit(5, -1) ** Get(s, "fd")))) // (p.La ++
                  (Lit(2, 0) ** p.g))) ** v.Cx
                  ELSE IF p.LE = 1
                  THEN ((Lit(67, -2) ** (Get(s, "Ls") -- (Lit(64, -2) ** v.TAOy))) // ((p.La
                  ++ (Lit(2, 0) ** p.g)) ** Sq(Get(s, "Kdp")))) ** v.Cx
                  ELSE IF p.LE = 2
                  THEN ((Lit(47, -2) ** (Get(s, "Ls") -- (Lit(64, -2) ** v.TAOy))) // ((p.La
                  ++ (Lit(2, 0) ** p.g)) ** Sq(Get(s, "Kdp")))) ** v.Cx
                  ELSE ((Lit(2, -1) ** Get(s, "Ls")) // ((p.La ++ (Lit(2, 0) ** p.g)) **
                  Sq(Get(s, "Kdp")))) ** v.Cx)
    [] i = 25 -> IF p.sks = "Y" THEN Local("tsk",
                  (p.Q1 ** Get(s, "t1")) // (p.Q1 ++ p.p)) ELSE Skip
    [] i = 26 -> Local("Xsk1",
                  IF p.sks = "Y"
                  THEN (Lit(5, -1) ** Sq(v.tsk // Get(s, "t1"))) ** v.Xd1
                  ELSE Lit(0, 0))
    [] i = 27 -> Field("X1", ((v.Xs1 ++ v.Xd1) ++ v.XE1) ++ v.Xsk1)
    [] i = 28 -> Local("kc",
                  (p.m ** Sq((Lit(2, 0) ** Get(s, "N")) ** Get(s, "Kdp"))) ** Lit(1, -4))
    [] i = 29 -> Local("ROUA1",
                  Lit(35, -3) ** (Lit(1, 0) ++ (Lit(4, -3) ** (p.t -- Lit(15, 0)))))
    [] i = 30 -> Local("RB",
                  (v.kc ** (((Lit(104, -2) ** p.La) ** v.ROUA1) ** Lit(10, 0))) //
                  (Get(s, "AB") ** p.Q2))
    [] i = 31 -> Local("RR",
                  (v.kc ** ((Get(s, "DR") ** v.ROUA1) ** Lit(10, 0))) // (((Lit(2, 0) **
                  PAI) ** Sq(p.p)) ** p.AR))
    [] i = 32 -> Field("R2", v.RB ++ v.RR)
    [] i = 33 -> Local("B12", RotorSlotB12(p))
    [] i = 34 -> Local("LUMDAS", RotorSlotLeakage(p))
    [] i = 35 -> Local("Xs2",
                  (((((p.La ** p.m) ** Lit(2, 0)) ** p.p) ** v.LUMDAS) ** v.Cx) // ((p.La ++
                  (Lit(2, 0) ** p.g)) ** p.Q2))
    [] i = 36 -> Local("SUMR2", (Sq(PAI) ** Sq((Lit(2, 0) ** p.p) // p.Q2)) // Lit(12, 0))
    [] i = 37 -> Local("Xd2",
                  (((p.m ** Get(s, "TAO")) ** v.SUMR2) // (((Sq(PAI) ** p.g) **
                  calculate_gap_factor(p, s)) ** Get(s, "Kst"))) ** v.Cx)
    [] i = 38 -> Local("XE2",
                  ((Lit(757, -3) // (p.La ++ (Lit(2, 0) ** p.g))) ** (((p.La -- p.La) //
                  Lit(113, -2)) ++ (Get(s, "DR") // (Lit(2, 0) ** p.p)))) ** v.Cx)
    [] i = 39 -> Field("X2", (v.Xs2 ++ v.Xd2) ++ v.XE2)
    [] OTHER -> End

(***************************************************************************)
(* Stage 7                                                                 *)
(***************************************************************************)
calculate_performance(i, p, s, v) ==
  CASE i = 1 -> Local("Fa",
                  ((((((Lit(45, -2) ** p.m) ** Get(s, "N")) ** Get(s, "Kdp")) ** Lit(5, -1))
                  ** Get(s, "IN")) ** Lit(1, 0)) // p.p)
    [] i = 2 -> Local("fad",
                  IF p.Lev = 1
                  THEN v.Fa // Get(s, "FF")
                  ELSE (Lit(2, 0) ** v.Fa) // Get(s, "FF"))
    [] i = 3 -> Local("f1", v.fad // p.SIGMA0)
    [] i = 4 -> Local("bmN",
                  (Get(s, "LUMDAn") ** (Lit(1, 0) -- v.f1)) // (Get(s, "LUMDAn") ++
                  Lit(1, 0)))
    [] i = 5 -> Local("FIN",
                  ((v.bmN -- ((Lit(1, 0) -- v.bmN) ** Get(s, "LUMDAs"))) ** Get(s, "FAIM"))
                  ** Lit(1, -6))
    [] i = 6 -> Local("KFI",
                  ((Lit(8, 0) // (PAI ** PAI)) // RFAi) ** NpSin((RFAi ** PAI) //
                  Lit(2, 0)))
    [] i = 7 -> Local("Ed",
                  ((((Lit(444, -2) ** p.f) ** Get(s, "N")) ** Get(s, "Kdp")) ** v.FIN) **
                  v.KFI)
    [] i = 8 -> Field("Xad", Abs((Get(s, "E0") -- v.Ed) // (Lit(5, -1) ** Get(s, "IN"))))
    [] i = 9 -> Field("Xd", Get(s, "Xad") ++ Get(s, "X1"))
    [] i = 10 -> Field("Xaq", Get(s, "Xad") ** p.Kq)
    [] i = 11 -> Field("Xq", Get(s, "Xaq") ++ Get(s, "X1"))
    [] i = 12 -> Local("Kf", (Lit(4, 0) // PAI) ** NpSin((PAI ** RFAi) // Lit(2, 0)))
    [] i = 13 -> Field("Kad", Lit(1, 0) // v.Kf)
    [] i = 14 -> Field("Kaq", p.Kq // v.Kf)
    [] i = 15 -> Field("bmN", v.bmN)
    [] OTHER -> End

(***************************************************************************)
(* Stage 8                                                                 *)
(***************************************************************************)
calculate_material_weights(i, p, s, v) ==
  CASE i = 1 -> Local("s11", ((p.Nt1 ** PAI) ** Sq(p.d11)) // Lit(4, 0))
    [] i = 2 -> Local("s12", ((p.Nt2 ** PAI) ** Sq(p.d12)) // Lit(4, 0))
    [] i = 3 -> Local("Lc",
                  Lit(2, 0) ** (p.La ++ (Lit(2, 0) ** (p.d ++ (Get(s, "Ls") //
                  Lit(2, 0))))))
    [] i = 4 -> Field("mCu",
                  (((((((Lit(105, -2) ** Lit(89, -1)) ** p.Q1) ** p.Ns) ** v.Lc) //
                  Lit(2, 0)) ** (v.s11 ++ v.s12)) ** Lit(1, -6)))
    [] i = 5 -> Field("mFe",
                  ((Lit(78, -1) ** (p.La ++ (Lit(2, 0) ** p.g))) ** Sq(p.D1 ++ Lit(5, 0)))
                  ** Lit(1, -6))
    [] i = 6 -> Field("mAl",
                  (Lit(27, -1) ** ((((p.Q2 ** Get(s, "AB")) ** p.La)) ++ (((Lit(2, 0) **
                  p.AR) ** PAI) ** Get(s, "DR")))) ** Lit(1, -6))
    [] OTHER -> End

(***************************************************************************)
(* Stage 9                                                                 *)
(***************************************************************************)
calculate_losses(i, p, s, v) ==
  CASE i = 1 -> Field("pCu", (p.m ** Sq(Get(s, "IN"))) ** Get(s, "Rs"))
    [] i = 2 -> Local("pt1", get_iron_loss(Get(s, "Bts"), p.steel_type))
    [] i = 3 -> Local("pj1", get_iron_loss(Get(s, "Bj1"), p.steel_type))
    [] i = 4 -> Field("pFe",
                  ((((Lit(25, -1) ** Get(s, "Vt1")) ** v.pt1) // Lit(1, 6))) ++ (((Lit(2, 0)
                  ** Get(s, "Vj1")) ** v.pj1) // Lit(1, 6)))
    [] i = 5 -> Field("pfw", (p.pfwl ** p.PN) ** Lit(1000, 0))
    [] i = 6 -> Field("ps",
                  ((Sq(Get(s, "IN") // Get(s, "IN")) ** p.psl) ** p.PN) ** Lit(1000, 0))
    [] i = 7 -> Field("pSum",
                  ((Get(s, "pCu") ++ Get(s, "pFe")) ++ Get(s, "pfw")) ++ Get(s, "ps"))
    [] OTHER -> End

(***************************************************************************)
(* Stage 10                                                                *)
(***************************************************************************)
calculate_starting_characteristics(i, p, s, v) ==
  CASE i = 1 -> Local("X1st", Get(s, "X1") ** Lit(8, -1))
    [] i = 2 -> Local("R2st", Get(s, "R2") ** Lit(12, -1))
    [] i = 3 -> Local("X2st", Get(s, "X2") ** Lit(8, -1))
    [] i = 4 -> Local("Xst", v.X1st ++ v.X2st)
    [] i = 5 -> Local("Rst", Get(s, "Rs") ++ v.R2st)
    [] i = 6 -> Local("Zst", NpSqrt(Sq(v.Rst) ++ Sq(v.Xst)))
    [] i = 7 -> Local("UN_calc", IF p.wgco = "Y" THEN p.UN // NpSqrt3 ELSE p.UN)
    [] i = 8 -> Field("Ist_calc", v.UN_calc // v.Zst)
    [] i = 9 -> Field("Ist_ratio", Get(s, "Ist_calc") // Get(s, "IN"))
    [] i = 10 -> Field("Tst_calc",
                  (((((p.m ** p.p) ** Sq(Get(s, "Ist_calc"))) ** v.R2st) // ((Lit(2, 0) **
                  PAI) ** p.f))) // Get(s, "TN"))
    [] OTHER -> End

(***************************************************************************)
(* Stage 11                                                                *)
(***************************************************************************)
calculate_actual_performance(i, p, s, v) ==
  CASE i = 1 -> Local("P_out", p.PN ** Lit(1000, 0))
    [] i = 2 -> Local("P_in", v.P_out ++ Get(s, "pSum"))
    [] i = 3 -> Field("eta_actual", (v.P_out // v.P_in) ** Lit(100, 0))
    [] i = 4 -> Local("Z_total", NpSqrt(Sq(Get(s, "Rs")) ++ Sq(Get(s, "X1"))))
    [] i = 5 -> Local("phi_rad", NpArctan(Get(s, "X1") // Get(s, "Rs")))
    [] i = 6 -> Field("cosfi_actual", NpCos(v.phi_rad))
    [] i = 7 -> Field("theta_actual",
                  (NpArcsin(v.P_out // (((p.m ** Get(s, "E0")) ** Get(s, "IN")) // NpSqrt3)) **
                  Lit(180, 0)) // PAI)
    [] i = 8 -> Field("phi_actual", (NpArccos(Get(s, "cosfi_actual")) ** Lit(180, 0)) // PAI)
    [] i = 9 -> Local("s_total",
                  p.Ns ** ((((p.Nt1 ** PAI) ** Sq(p.d11)) // Lit(4, 0)) ++ (((p.Nt2 ** PAI)
                  ** Sq(p.d12)) // Lit(4, 0))))
    [] i = 10 -> Local("slot_area",
                  (((p.b01 ++ p.b1) ** p.h12) // Lit(2, 0)) ++ (p.b01 ** p.h01))
    [] i = 11 -> Field("Sf_actual", (v.s_total // v.slot_area) ** Lit(100, 0))
    [] i = 12 -> Field("A1_actual",
                  ((p.m ** Get(s, "N")) ** Get(s, "IN")) // (PAI ** p.Di1))
    [] i = 13 -> Field("J1_actual", Get(s, "IN") // v.s_total)
    [] i = 14 -> Field("A1J1_actual", Get(s, "A1_actual") ** Get(s, "J1_actual"))
    [] i = 15 -> Field("bmh_actual", Get(s, "bmN") ** Lit(382, -3))
    [] OTHER -> End

(***************************************************************************)
(* The results bundle                                                      *)
(***************************************************************************)
ValueError == Raised("ValueError")
OverflowError == Raised("OverflowError")

\* A string entry of the bundle.
Str(x) == [k |-> "str", s |-> 1, m |-> 0, e |-> 0, np |-> FALSE, x |-> x]

\* round(a, n): n decimals, ties to even; nan and inf pass through.
RoundTo(a, n) ==
  IF a.k # "num" \/ a.e >= -n THEN a
  ELSE LET d == (-n) - a.e
       IN  IF d > 8 THEN Zero(a.np)
           ELSE LET q  == a.m \div Pow10(d)
                    r  == a.m % Pow10(d)
                    h  == 5 * Pow10(d - 1)
                    up == r > h \/ (r = h /\ q % 2 = 1)
                IN  Mk(a.s, IF up THEN q + 1 ELSE q, -n, a.np)

\* int(a): truncation towards zero; nan and inf raise.
IntOf(a) ==
  CASE a.k = "nan" -> ValueError
    [] a.k = "inf" -> OverflowError
    [] a.k = "num" /\ a.e < -8 -> Zero(FALSE)
    [] a.k = "num" /\ a.e < 0 -> Mk(a.s, a.m \div Pow10(-a.e), 0, FALSE)
    [] OTHER -> a

slot_names == (1 :> "pear") @@ (2 :> "half-pear") @@ (3 :> "round") @@ (4 :> "shoulder-round")

get_slot_type_name(CX) == IF CX \in DOMAIN slot_names THEN slot_names[CX] ELSE "unknown"

\* The ten groups of the bundle; an entry is named group.key.
ResultGroups ==
  {"basic", "winding", "geometry", "magnetic", "magnet",
   "impedance", "mass", "loss", "starting", "actual"}

\* The dictionary literal of save_complete_results, entry by entry in the
\* order Python evaluates it; self.results is assigned once all are built.
save_complete_results(i, p, s, v) ==
  CASE i = 1 -> Entry("basic.nN", RoundTo(Get(s, "nN"), 1))
    [] i = 2 -> Entry("basic.IN", RoundTo(Get(s, "IN"), 2))
    [] i = 3 -> Entry("basic.TN", RoundTo(Get(s, "TN"), 2))
    [] i = 4 -> Entry("basic.TAO", RoundTo(Get(s, "TAO"), 2))
    [] i = 5 -> Entry("basic.OMGs", RoundTo(Get(s, "OMGs"), 2))
    [] i = 6 -> Entry("winding.N", IntOf(Get(s, "N")))
    [] i = 7 -> Entry("winding.Kdp", RoundTo(Get(s, "Kdp"), 4))
    [] i = 8 -> Entry("winding.Kp1", RoundTo(Get(s, "Kp1"), 4))
    [] i = 9 -> Entry("winding.Kd1", RoundTo(Get(s, "Kd1"), 4))
    [] i = 10 -> Entry("winding.Ksk1", RoundTo(Get(s, "Ksk1"), 4))
    [] i = 11 -> Entry("winding.Ls", RoundTo(Get(s, "Ls"), 1))
    [] i = 12 -> Entry("winding.fd", RoundTo(Get(s, "fd"), 1))
    [] i = 13 -> Entry("geometry.t1", RoundTo(Get(s, "t1"), 2))
    [] i = 14 -> Entry("geometry.t2", RoundTo(Get(s, "t2"), 2))
    [] i = 15 -> Entry("geometry.D2", RoundTo(Get(s, "D2"), 1))
    [] i = 16 -> Entry("geometry.bt1", RoundTo(Get(s, "bt1"), 2))
    [] i = 17 -> Entry("geometry.bt2", RoundTo(Get(s, "bt2"), 2))
    [] i = 18 -> Entry("geometry.hj1", RoundTo(Get(s, "hj1"), 2))
    [] i = 19 -> Entry("geometry.hj2", RoundTo(Get(s, "hj2"), 2))
    [] i = 20 -> Entry("geometry.AB", RoundTo(Get(s, "AB"), 1))
    [] i = 21 -> Entry("geometry.DR", RoundTo(Get(s, "DR"), 1))
    [] i = 22 -> Entry("geometry.CX", Str(get_slot_type_name(p.CX)))
    [] i = 23 -> Entry("magnetic.Kg", RoundTo(calculate_gap_factor(p, s), 3))
    [] i = 24 -> Entry("magnetic.Bg", RoundTo(Get(s, "Bg"), 3))
    [] i = 25 -> Entry("magnetic.Bg1", RoundTo(Get(s, "Bg1"), 3))
    [] i = 26 -> Entry("magnetic.Bts", RoundTo(Get(s, "Bts"), 3))
    [] i = 27 -> Entry("magnetic.Bj1", RoundTo(Get(s, "Bj1"), 3))
    [] i = 28 -> Entry("magnetic.Btr", RoundTo(Get(s, "Btr"), 3))
    [] i = 29 -> Entry("magnetic.Bj2", RoundTo(Get(s, "Bj2"), 3))
    [] i = 30 -> Entry("magnetic.E0", RoundTo(Get(s, "E0"), 1))
    [] i = 31 -> Entry("magnetic.bm0", RoundTo(Get(s, "bm0"), 4))
    [] i = 32 -> Entry("magnetic.Kst", RoundTo(Get(s, "Kst"), 2))
    [] i = 33 -> Entry("magnetic.steel", Str(get_steel_name(p.steel_type)))
    [] i = 34 -> Entry("magnet.Br", RoundTo(Get(s, "Br"), 3))
    [] i = 35 -> Entry("magnet.Hc", RoundTo(Get(s, "Hc"), 0))
    [] i = 36 -> Entry("magnet.MUr", RoundTo(Get(s, "MUr"), 3))
    [] i = 37 -> Entry("magnet.Am", RoundTo(Get(s, "Am"), 0))
    [] i = 38 -> Entry("magnet.FF", RoundTo(Get(s, "FF"), 1))
    [] i = 39 -> Entry("magnet.FAIM", RoundTo(Get(s, "FAIM"), 3))
    [] i = 40 -> Entry("magnet.mm", RoundTo(Get(s, "mm"), 2))
    [] i = 41 -> Entry("impedance.Rs", RoundTo(Get(s, "Rs"), 4))
    [] i = 42 -> Entry("impedance.R2", RoundTo(Get(s, "R2"), 4))
    [] i = 43 -> Entry("impedance.X1", RoundTo(Get(s, "X1"), 4))
    [] i = 44 -> Entry("impedance.X2", RoundTo(Get(s, "X2"), 4))
    [] i = 45 -> Entry("impedance.Xd", RoundTo(Get(s, "Xd"), 3))
    [] i = 46 -> Entry("impedance.Xq", RoundTo(Get(s, "Xq"), 3))
    [] i = 47 -> Entry("impedance.Xad", RoundTo(Get(s, "Xad"), 3))
    [] i = 48 -> Entry("impedance.Xaq", RoundTo(Get(s, "Xaq"), 3))
    [] i = 49 -> Entry("impedance.Kad", RoundTo(Get(s, "Kad"), 3))
    [] i = 50 -> Entry("impedance.Kaq", RoundTo(Get(s, "Kaq"), 3))
    [] i = 51 -> Entry("mass.mCu", RoundTo(Get(s, "mCu"), 2))
    [] i = 52 -> Entry("mass.mFe", RoundTo(Get(s, "mFe"), 2))
    [] i = 53 -> Entry("mass.mAl", RoundTo(Get(s, "mAl"), 2))
    [] i = 54 -> Entry("mass.mm", RoundTo(Get(s, "mm"), 2))
    [] i = 55 -> Entry("loss.pCu", RoundTo(Get(s, "pCu"), 1))
    [] i = 56 -> Entry("loss.pFe", RoundTo(Get(s, "pFe"), 1))
    [] i = 57 -> Entry("loss.pfw", RoundTo(Get(s, "pfw"), 1))
    [] i = 58 -> Entry("loss.ps", RoundTo(Get(s, "ps"), 1))
    [] i = 59 -> Entry("loss.pSum", RoundTo(Get(s, "pSum"), 1))
    [] i = 60 -> Entry("starting.Ist_ratio", RoundTo(Get(s, "Ist_ratio"), 2))
    [] i = 61 -> Entry("starting.Ist_calc", RoundTo(Get(s, "Ist_calc"), 1))
    [] i = 62 -> Entry("starting.Tst_calc", RoundTo(Get(s, "Tst_calc"), 2))
    [] i = 63 -> Entry("actual.eta", RoundTo(Get(s, "eta_actual"), 2))
    [] i = 64 -> Entry("actual.cosfi", RoundTo(Get(s, "cosfi_actual"), 3))
    [] i = 65 -> Entry("actual.theta", RoundTo(Get(s, "theta_actual"), 1))
    [] i = 66 -> Entry("actual.phi", RoundTo(Get(s, "phi_actual"), 1))
    [] i = 67 -> Entry("actual.Sf", RoundTo(Get(s, "Sf_actual"), 1))
    [] i = 68 -> Entry("actual.A1", RoundTo(Get(s, "A1_actual"), 1))
    [] i = 69 -> Entry("actual.J1", RoundTo(Get(s, "J1_actual"), 1))
    [] i = 70 -> Entry("actual.A1J1", RoundTo(Get(s, "A1J1_actual"), 1))
    [] i = 71 -> Entry("actual.bmN", RoundTo(Get(s, "bmN"), 3))
    [] i = 72 -> Entry("actual.bmh", RoundTo(Get(s, "bmh_actual"), 3))
    [] OTHER -> End

(***************************************************************************)
(* Running a method                                                        *)
(***************************************************************************)
\* The i-th statement of the method named m.
Statement(m, i, p, s, v) ==
  CASE m = "calculate_basic_parameters" -> calculate_basic_parameters(i, p, s, v)
    [] m = "calculate_winding_parameters" -> calculate_winding_parameters(i, p, s, v)
    [] m = "calculate_geometry_parameters" -> calculate_geometry_parameters(i, p, s, v)
    [] m = "calculate_magnet_parameters" -> calculate_magnet_parameters(i, p, s, v)
    [] m = "calculate_no_load_magnetic_circuit: round" -> NoLoadRound(i, p, s, v)
    [] m = "calculate_no_load_magnetic_circuit: after the loop" -> NoLoadPostLoop(i, p, s, v)
    [] m = "calculate_impedances" -> calculate_impedances(i, p, s, v)
    [] m = "calculate_performance" -> calculate_performance(i, p, s, v)
    [] m = "calculate_material_weights" -> calculate_material_weights(i, p, s, v)
    [] m = "calculate_losses" -> calculate_losses(i, p, s, v)
    [] m = "calculate_starting_characteristics" -> calculate_starting_characteristics(i, p, s, v)
    [] m = "calculate_actual_performance" -> calculate_actual_performance(i, p, s, v)
    [] m = "save_complete_results" -> save_complete_results(i, p, s, v)

\* The statements lo..hi of m in order, none after one that raised.
RECURSIVE ExecRange(_, _, _, _, _)
ExecRange(m, p, lo, hi, st) ==
  IF st.raised THEN st
  ELSE IF lo = hi THEN Step(st, Statement(m, lo, p, st.self, st.locals))
  ELSE LET mid  == (lo + hi) \div 2
           half == ExecRange(m, p, lo, mid, st)
       IN  ExecRange(m, p, mid + 1, hi, half)

\* Running method m on the attributes s with the locals v it starts from.
Exec(m, p, s, v) == ExecRange(m, p, 1, MaxStatements, Frame(s, v))

(***************************************************************************)
(* calculate_all                                                           *)
(***************************************************************************)
\* The selectors the runs draw from reach one past each enumeration.
MaxGrade == 6
MaxCX == 5

\* Parameter sets that differ from the defaults in the fields named.
ParamVariants ==
  { MotorParameters,
    [MotorParameters EXCEPT !.p = Lit(0, 0)],
    [MotorParameters EXCEPT !.a = Lit(0, 0)],
    [MotorParameters EXCEPT !.Q2 = Lit(0, 0)],
    [MotorParameters EXCEPT !.Hc0 = Lit(0, 0)],
    [MotorParameters EXCEPT !.Br0 = Lit(0, 0)],
    [MotorParameters EXCEPT !.b01 = Lit(0, 0)],
    [MotorParameters EXCEPT !.b02 = Lit(0, 0)],
    [MotorParameters EXCEPT !.La = Lit(0, 0)],
    [MotorParameters EXCEPT !.g = Lit(0, 0)],
    [MotorParameters EXCEPT !.Di1 = Lit(-170, 0)],
    [MotorParameters EXCEPT !.wgco = "J", !.PN = Lit(0, 0)],
    [MotorParameters EXCEPT !.PN = Lit(0, 0)],
    [MotorParameters EXCEPT !.h01 = Lit(0, 0), !.h12 = Lit(0, 0)],
    [MotorParameters EXCEPT !.wgco = "J"],
    [MotorParameters EXCEPT !.Lev = 2],
    [MotorParameters EXCEPT !.magnet = 2],
    [MotorParameters EXCEPT !.LE = 0],
    [MotorParameters EXCEPT !.sks = "N"],
    [MotorParameters EXCEPT !.hM = Lit(2, 0)] }

\* A delta-connected winding at the line voltage V volts, and a
\* star-connected one at V * sqrt(3), the product a Python float of the
\* caller.
Voltages == {6, 12, 100, 200, 381, 400, 690, 1000}
Sqrt3 == Lit(17320508, -7)
DeltaAt(V) == [MotorParameters EXCEPT !.wgco = "J", !.UN = Lit(V, 0)]
StarAt(V) == [MotorParameters EXCEPT !.UN = Lit(V, 0) ** Sqrt3]
ConnectionPairs == {DeltaAt(V) : V \in Voltages} \cup {StarAt(V) : V \in Voltages}

\* The parameter sets a run may be constructed with: every steel grade and
\* slot profile selector with the default dimensions, and every variant.
ParamSets ==
  { [MotorParameters EXCEPT !.steel_type = g, !.CX = c] :
      g \in 0..MaxGrade, c \in 0..MaxCX } \cup ParamVariants \cup ConnectionPairs

\* str(e) of the exception a stage raised.  Python words a zero division of
\* two ints "division by zero" and one with a float operand "float division
\* by zero"; the model has one number type and keeps the second wording for
\* both.
ExceptionText(exc, p) ==
  CASE exc = "KeyError" -> ToString(p.steel_type)
    [] exc = "ZeroDivisionError" -> "float division by zero"
    [] OTHER -> exc

NoLoop ==
  [iteration |-> 0, rounds |-> 0, converged |-> FALSE, posts |-> 0,
   bm01 |-> Zero(FALSE), bm0 |-> Zero(FALSE), LUMDAn |-> Zero(FALSE),
   LUMDAm |-> Zero(FALSE), FI01 |-> Zero(FALSE), Ft1 |-> Zero(FALSE),
   Ft2 |-> Zero(FALSE), change |-> Zero(FALSE)]

NoRun ==
  [made |-> FALSE, outcome |-> [state |-> "none", success |-> FALSE, message |-> "", detail |-> ""],
   self |-> << >>, results |-> << >>, executed |-> << >>, loop |-> NoLoop]

\* No second instance.
NoPeer ==
  [name |-> "none", params |-> << >>, pc |-> "none", executed |-> << >>, at |-> 0,
   self |-> << >>, loop |-> NoLoop, results |-> << >>, outcome |-> NoRun.outcome]

\* The desktop shell as MotorCalculatorGUI.__init__ leaves it, no handler
\* having run: the form holds the defaults, self.params is MotorParameters(),
\* the results text is empty, the four axes and the canvas are empty, and
\* the attribute last_results does not exist.  Blank is a text or a plot
\* with nothing in it.  shown is the last dialog,
\* files the number of files written.  did, engine, succeeded and clicks
\* record the session: the last handler, how its engine run ended, how many
\* engine runs have reported success, and how many handlers have run.
Blank == [kind |-> "empty", params |-> << >>, results |-> << >>]

NoShell ==
  [form |-> MotorParameters, params |-> MotorParameters,
   last_results |-> [exists |-> FALSE, value |-> << >>],
   text |-> Blank, axes |-> Blank, canvas |-> Blank, shown |-> "none", files |-> 0,
   did |-> "none", engine |-> "none", succeeded |-> 0, clicks |-> 0]

NoLookup == [B |-> 0, steel_type |-> 0, table |-> "none", value |-> Zero(FALSE)]
NoSlot == [geometry |-> MotorParameters, calls |-> << >>]

\* __init__ on the parameter record p (results = {}), before calculate_all
\* is called.
Constructed(p) ==
  /\ params = p
  /\ pc = "constructed"
  /\ executed = << >>
  /\ at = 0
  /\ self = << >>
  /\ loop = NoLoop
  /\ results = << >>
  /\ outcome = [state |-> "none", success |-> FALSE, message |-> "", detail |-> ""]

Init ==
  /\ \E p \in ParamSets : Constructed(p)
  /\ lookup = NoLookup
  /\ slot = NoSlot
  /\ first = NoRun
  /\ peer = NoPeer
  /\ gui = NoShell

\* The classes of the exceptions the stages and the save raise; each derives
\* from Exception.
ExceptionClasses ==
  {"ZeroDivisionError", "KeyError", "AttributeError", "ValueError", "OverflowError"}

\* An except clause for arithmetic errors only.
CaughtArithmeticOnly(exc) == exc \in {"ZeroDivisionError", "OverflowError"}

\* Line 314, "except Exception as e": the clause is entered for every
\* exception whose class derives from Exception.
Caught(exc) == exc \in ExceptionClasses

\* What the caller of calculate_all gets when exc is raised inside the try
\* block: the pair (False, "error: " + str(e)) of the except clause, or the
\* exception itself when the clause does not catch it.
FailureOutcome(exc, p) ==
  IF Caught(exc)
  THEN [state |-> "failed", success |-> FALSE, message |-> "calculation error",
        detail |-> ExceptionText(exc, p)]
  ELSE [state |-> "raised", success |-> FALSE, message |-> exc, detail |-> ""]

\* The try block is left by an exception.
Failed(exc) ==
  /\ pc' = "returned"
  /\ outcome' = FailureOutcome(exc, params)

\* A prologue that enters the pipeline at stage 2.
BeginSkippingStage1 ==
  /\ pc = "constructed"
  /\ pc' = "stage"
  /\ at' = 2
  /\ UNCHANGED <<params, executed, self, loop, results, outcome, lookup, slot, first, peer, gui>>

\* A prologue that replaces an undefined steel grade in the caller's record
\* by the default grade.
BeginDefaultingGrade ==
  /\ pc = "constructed"
  /\ pc' = "stage"
  /\ at' = 1
  /\ params' = [params EXCEPT !.steel_type = IF @ \in 1..5 THEN @ ELSE 5]
  /\ UNCHANGED <<executed, self, loop, results, outcome, lookup, slot, first, peer, gui>>

\* Lines 258-261: the banner; get_steel_name never raises.
Begin ==
  /\ pc = "constructed"
  /\ pc' = "stage"
  /\ at' = 1
  /\ UNCHANGED <<params, executed, self, loop, results, outcome, lookup, slot, first, peer, gui>>

\* The stage methods with stages 6 and 7 called in the opposite order.
StageMethodsPerformanceFirst ==
  1 :> "calculate_basic_parameters" @@ 2 :> "calculate_winding_parameters"
    @@ 3 :> "calculate_geometry_parameters" @@ 4 :> "calculate_magnet_parameters"
    @@ 6 :> "calculate_performance" @@ 7 :> "calculate_impedances"
    @@ 8 :> "calculate_material_weights" @@ 9 :> "calculate_losses"
    @@ 10 :> "calculate_starting_characteristics"
    @@ 11 :> "calculate_actual_performance"

\* The stage methods other than stage 5, by their position in calculate_all.
StageMethods ==
  1 :> "calculate_basic_parameters" @@ 2 :> "calculate_winding_parameters"
    @@ 3 :> "calculate_geometry_parameters" @@ 4 :> "calculate_magnet_parameters"
    @@ 6 :> "calculate_impedances" @@ 7 :> "calculate_performance"
    @@ 8 :> "calculate_material_weights" @@ 9 :> "calculate_losses"
    @@ 10 :> "calculate_starting_characteristics"
    @@ 11 :> "calculate_actual_performance"

\* One stage method called from calculate_all: its assignments up to the
\* first that raises, then either the next stage or the except clause.
RunStage ==
  /\ pc = "stage"
  /\ at \in DOMAIN StageMethods
  /\ executed' = Append(executed, at)
  /\ \E r \in {Exec(StageMethods[at], params, self, << >>)} :
       /\ self' = r.self
       /\ IF r.raised
          THEN Failed(r.exc) /\ at' = at
          ELSE /\ pc' = IF at = 11 THEN "save" ELSE "stage"
               /\ at' = at + 1
               /\ outcome' = outcome
  /\ UNCHANGED <<params, loop, results, lookup, slot, first, peer, gui>>

\* A stage 5 that starts from the operating point an earlier call left on
\* the engine.
Stage5BeginWarmStart ==
  /\ pc = "stage"
  /\ at = 5
  /\ executed' = Append(executed, 5)
  /\ \E bm01 \in {IF "bm0" \in DOMAIN self THEN self.bm0 ELSE NoLoadInitialEstimate(params)} :
       IF bm01.k = "err"
       THEN Failed(bm01.x) /\ loop' = loop
       ELSE /\ pc' = "round"
            /\ loop' = [NoLoop EXCEPT !.bm01 = bm01]
            /\ outcome' = outcome
  /\ UNCHANGED <<params, at, self, results, lookup, slot, first, peer, gui>>

\* Stage 5 up to the loop: the initial estimate of line 496.
Stage5Begin ==
  /\ pc = "stage"
  /\ at = 5
  /\ executed' = Append(executed, 5)
  /\ \E bm01 \in {NoLoadInitialEstimate(params)} :
       IF bm01.k = "err"
       THEN Failed(bm01.x) /\ loop' = loop
       ELSE /\ pc' = "round"
            /\ loop' = [NoLoop EXCEPT !.bm01 = bm01]
            /\ outcome' = outcome
  /\ UNCHANGED <<params, at, self, results, lookup, slot, first, peer, gui>>

\* One pass of the body of "for iteration in range(30)".
Stage5Round ==
  /\ pc = "round"
  /\ loop.iteration < MaxRounds
  /\ \E r \in {Exec("calculate_no_load_magnetic_circuit: round", params, self,
                   "bm01" :> loop.bm01)} :
       /\ self' = r.self
       /\ IF r.raised
          THEN Failed(r.exc) /\ loop' = [loop EXCEPT !.rounds = @ + 1]
          ELSE \E done \in {[loop EXCEPT !.rounds = @ + 1, !.bm0 = r.locals.bm0,
                                !.LUMDAn = r.locals.LUMDAn, !.LUMDAm = r.locals.LUMDAm,
                                !.FI01 = r.locals.FI01, !.Ft1 = r.locals.Ft1,
                                !.Ft2 = r.locals.Ft2, !.change = r.locals.change]} :
                 IF ConvergenceTest(r.locals.change)
                 THEN /\ loop' = [done EXCEPT !.converged = TRUE]
                      /\ pc' = "after"
                      /\ outcome' = outcome
                 ELSE /\ loop' = [done EXCEPT !.bm01 = DampedUpdate(loop.bm01, r.locals.bm0),
                                              !.iteration = @ + 1]
                      /\ pc' = IF loop.iteration + 1 = MaxRounds THEN "after" ELSE "round"
                      /\ outcome' = outcome
  /\ UNCHANGED <<params, executed, at, results, lookup, slot, first, peer, gui>>

\* A stage 5 that raises when the loop ran out without passing the test.
Stage5PostLoopStrict ==
  /\ pc = "after"
  /\ \E r \in {Exec("calculate_no_load_magnetic_circuit: after the loop", params, self,
                   [n \in {"bm0", "LUMDAn", "LUMDAm", "FI01", "Ft1", "Ft2"} |-> loop[n]])} :
       /\ loop' = [loop EXCEPT !.posts = @ + 1]
       /\ IF ~loop.converged
          THEN Failed("RuntimeError") /\ at' = at /\ self' = self
          ELSE IF r.raised
          THEN Failed(r.exc) /\ at' = at /\ self' = r.self
          ELSE pc' = "stage" /\ at' = 6 /\ outcome' = outcome /\ self' = r.self
  /\ UNCHANGED <<params, executed, results, lookup, slot, first, peer, gui>>

\* Lines 564-580, after the loop.
Stage5PostLoop ==
  /\ pc = "after"
  /\ \E r \in {Exec("calculate_no_load_magnetic_circuit: after the loop", params, self,
                   [n \in {"bm0", "LUMDAn", "LUMDAm", "FI01", "Ft1", "Ft2"} |-> loop[n]])} :
       /\ self' = r.self
       /\ loop' = [loop EXCEPT !.posts = @ + 1]
       /\ IF r.raised
          THEN Failed(r.exc) /\ at' = at
          ELSE pc' = "stage" /\ at' = 6 /\ outcome' = outcome
  /\ UNCHANGED <<params, executed, results, lookup, slot, first, peer, gui>>

\* The ten groups of the dictionary literal of save_complete_results, each
\* with the entries it holds.
GroupEntries ==
  [basic |-> {"basic.nN", "basic.IN", "basic.TN", "basic.TAO", "basic.OMGs"},
   winding |-> {"winding.N", "winding.Kdp", "winding.Kp1", "winding.Kd1",
       "winding.Ksk1", "winding.Ls", "winding.fd"},
   geometry |-> {"geometry.t1", "geometry.t2", "geometry.D2", "geometry.bt1",
       "geometry.bt2", "geometry.hj1", "geometry.hj2", "geometry.AB",
       "geometry.DR", "geometry.CX"},
   magnetic |-> {"magnetic.Kg", "magnetic.Bg", "magnetic.Bg1", "magnetic.Bts",
       "magnetic.Bj1", "magnetic.Btr", "magnetic.Bj2", "magnetic.E0",
       "magnetic.bm0", "magnetic.Kst", "magnetic.steel"},
   magnet |-> {"magnet.Br", "magnet.Hc", "magnet.MUr", "magnet.Am",
       "magnet.FF", "magnet.FAIM", "magnet.mm"},
   impedance |-> {"impedance.Rs", "impedance.R2", "impedance.X1",
       "impedance.X2", "impedance.Xd", "impedance.Xq", "impedance.Xad",
       "impedance.Xaq", "impedance.Kad", "impedance.Kaq"},
   mass |-> {"mass.mCu", "mass.mFe", "mass.mAl", "mass.mm"},
   loss |-> {"loss.pCu", "loss.pFe", "loss.pfw", "loss.ps", "loss.pSum"},
   starting |-> {"starting.Ist_ratio", "starting.Ist_calc",
       "starting.Tst_calc"},
   actual |-> {"actual.eta", "actual.cosfi", "actual.theta", "actual.phi",
       "actual.Sf", "actual.A1", "actual.J1", "actual.A1J1", "actual.bmN",
       "actual.bmh"}]

\* A save that has stored the first group only when the caller looks.
FinishFirstGroup ==
  /\ pc = "save"
  /\ \E r \in {Exec("save_complete_results", params, self, << >>)} :
       IF r.raised
       THEN Failed(r.exc) /\ results' = results
       ELSE /\ results' = [n \in GroupEntries.basic |-> r.entries[n]]
            /\ pc' = "returned"
            /\ outcome' = [state |-> "completed", success |-> TRUE,
                           message |-> "calculation complete", detail |-> ""]
  /\ UNCHANGED <<params, executed, at, self, loop, lookup, slot, first, peer, gui>>

\* Lines 308-311: save_complete_results, then return (True, "done").
Finish ==
  /\ pc = "save"
  /\ \E r \in {Exec("save_complete_results", params, self, << >>)} :
       IF r.raised
       THEN Failed(r.exc) /\ results' = results
       ELSE /\ results' = r.entries
            /\ pc' = "returned"
            /\ outcome' = [state |-> "completed", success |-> TRUE,
                           message |-> "calculation complete", detail |-> ""]
  /\ UNCHANGED <<params, executed, at, self, loop, lookup, slot, first, peer, gui>>

Next ==
  \/ Begin
  \/ RunStage
  \/ Stage5Begin \/ Stage5Round \/ Stage5PostLoop
  \/ Finish

Spec == Init /\ [][Next]_vars

(***************************************************************************)
(* A caller that calls calculate_all a second time on the same engine: the *)
(* attributes and the results bundle of the first call are still on the    *)
(* instance, the locals of the stages are fresh.                           *)
(***************************************************************************)
CallAgain ==
  /\ pc = "returned"
  /\ ~first.made
  /\ first' = [made |-> TRUE, outcome |-> outcome, self |-> self, results |-> results,
                executed |-> executed, loop |-> loop]
  /\ pc' = "constructed"
  /\ executed' = << >>
  /\ at' = 0
  /\ loop' = NoLoop
  /\ outcome' = NoRun.outcome
  /\ UNCHANGED <<params, self, results, lookup, slot, peer, gui>>

NextTwice == Next \/ CallAgain

SpecTwice == Init /\ [][NextTwice]_vars

(***************************************************************************)
(* calculate_all as a function: the run of one engine, alone, from         *)
(* construction on p to the return, as one value.  EngineStep is the step  *)
(* the engine in state st takes next; the state is the record of pc, at,   *)
(* executed, self, loop, results and outcome.                              *)
(***************************************************************************)
Fresh ==
  [pc |-> "constructed", executed |-> << >>, at |-> 0, self |-> << >>, loop |-> NoLoop,
   results |-> << >>, outcome |-> NoRun.outcome]

\* A stage method other than stage 5 has run, with result r.
StageStep(p, st, r) ==
  IF r.raised
  THEN [st EXCEPT !.executed = Append(@, st.at), !.self = r.self, !.pc = "returned",
                  !.outcome = FailureOutcome(r.exc, p)]
  ELSE [st EXCEPT !.executed = Append(@, st.at), !.self = r.self,
                  !.pc = IF st.at = 11 THEN "save" ELSE "stage", !.at = @ + 1]

\* Stage 5 up to the loop, with the initial estimate bm01.
Stage5BeginStep(p, st, bm01) ==
  IF bm01.k = "err"
  THEN [st EXCEPT !.executed = Append(@, 5), !.pc = "returned",
                  !.outcome = FailureOutcome(bm01.x, p)]
  ELSE [st EXCEPT !.executed = Append(@, 5), !.pc = "round",
                  !.loop = [NoLoop EXCEPT !.bm01 = bm01]]

\* The loop locals after a round that raised nothing, before the test.
RoundDone(lp, v) ==
  [lp EXCEPT !.rounds = @ + 1, !.bm0 = v.bm0, !.LUMDAn = v.LUMDAn, !.LUMDAm = v.LUMDAm,
             !.FI01 = v.FI01, !.Ft1 = v.Ft1, !.Ft2 = v.Ft2, !.change = v.change]

\* One pass of the loop body has run, with result r.
Stage5RoundStep(p, st, r) ==
  IF r.raised
  THEN [st EXCEPT !.self = r.self, !.loop = [@ EXCEPT !.rounds = @ + 1],
                  !.pc = "returned", !.outcome = FailureOutcome(r.exc, p)]
  ELSE IF ConvergenceTest(r.locals.change)
  THEN [st EXCEPT !.self = r.self, !.pc = "after",
                  !.loop = [RoundDone(st.loop, r.locals) EXCEPT !.converged = TRUE]]
  ELSE [st EXCEPT !.self = r.self,
                  !.pc = IF st.loop.iteration + 1 = MaxRounds THEN "after" ELSE "round",
                  !.loop = [RoundDone(st.loop, r.locals) EXCEPT
                              !.bm01 = DampedUpdate(st.loop.bm01, r.locals.bm0),
                              !.iteration = @ + 1]]

\* The statements after the loop have run, with result r.
Stage5PostLoopStep(p, st, r) ==
  IF r.raised
  THEN [st EXCEPT !.self = r.self, !.loop = [@ EXCEPT !.posts = @ + 1],
                  !.pc = "returned", !.outcome = FailureOutcome(r.exc, p)]
  ELSE [st EXCEPT !.self = r.self, !.loop = [@ EXCEPT !.posts = @ + 1],
                  !.pc = "stage", !.at = 6]

\* save_complete_results has run, with result r.
FinishStep(p, st, r) ==
  IF r.raised
  THEN [st EXCEPT !.pc = "returned", !.outcome = FailureOutcome(r.exc, p)]
  ELSE [st EXCEPT !.results = r.entries, !.pc = "returned",
                  !.outcome = [state |-> "completed", success |-> TRUE,
                               message |-> "calculation complete", detail |-> ""]]

EngineStep(p, st) ==
  CASE st.pc = "constructed" -> [st EXCEPT !.pc = "stage", !.at = 1]
    [] st.pc = "stage" /\ st.at = 5 -> Stage5BeginStep(p, st, NoLoadInitialEstimate(p))
    [] st.pc = "stage" /\ st.at # 5 ->
         StageStep(p, st, Exec(StageMethods[st.at], p, st.self, << >>))
    [] st.pc = "round" ->
         Stage5RoundStep(p, st, Exec("calculate_no_load_magnetic_circuit: round", p,
                                     st.self, "bm01" :> st.loop.bm01))
    [] st.pc = "after" ->
         Stage5PostLoopStep(p, st,
           Exec("calculate_no_load_magnetic_circuit: after the loop", p, st.self,
                [n \in {"bm0", "LUMDAn", "LUMDAm", "FI01", "Ft1", "Ft2"} |-> st.loop[n]]))
    [] st.pc = "save" -> FinishStep(p, st, Exec("save_complete_results", p, st.self, << >>))
    [] OTHER -> st

RECURSIVE RunFrom(_, _)
RunFrom(p, st) == IF st.pc = "returned" THEN st ELSE RunFrom(p, EngineStep(p, st))

\* engine = MotorCalculationEngine(p); engine.calculate_all()
calculate_all(p) == RunFrom(p, Fresh)

\* The engine of the state variables, as such a record.
Engine ==
  [pc |-> pc, executed |-> executed, at |-> at, self |-> self, loop |-> loop,
   results |-> results, outcome |-> outcome]

(***************************************************************************)
(* Two engine instances, each constructed on its own parameter record and  *)
(* each running calculate_all, on threads that are switched at any point   *)
(* between two steps.  The state variables are the instance that is        *)
(* running; peer is the one that is not, under its name.  peer.mixed says  *)
(* that a switch has happened while both runs were under way.              *)
(***************************************************************************)
PairSets ==
  { MotorParameters,
    [MotorParameters EXCEPT !.steel_type = 1],
    [MotorParameters EXCEPT !.steel_type = 6] }

InitPair ==
  /\ \E p \in PairSets : Constructed(p)
  /\ \E q \in PairSets :
       peer = [name |-> "B", mixed |-> FALSE, params |-> q] @@ Fresh
  /\ lookup = NoLookup
  /\ slot = NoSlot
  /\ first = NoRun
  /\ gui = NoShell

UnderWay(state) == state \notin {"constructed", "returned"}

\* A thread switch that leaves the locals of stage 5 where they are, as if
\* they were shared by the instances.
SwitchSharingLoop ==
  /\ peer.name \in {"A", "B"}
  /\ peer' = [name |-> IF peer.name = "A" THEN "B" ELSE "A",
              mixed |-> peer.mixed \/ (UnderWay(pc) /\ UnderWay(peer.pc)),
              params |-> params, pc |-> pc, executed |-> executed, at |-> at,
              self |-> self, loop |-> peer.loop, results |-> results, outcome |-> outcome]
  /\ params' = peer.params
  /\ pc' = peer.pc
  /\ executed' = peer.executed
  /\ at' = peer.at
  /\ self' = peer.self
  /\ loop' = loop
  /\ results' = peer.results
  /\ outcome' = peer.outcome
  /\ UNCHANGED <<lookup, slot, first, gui>>

\* The running thread is suspended and the other resumed: every attribute
\* and local belongs to one instance or one call and goes with it.
Switch ==
  /\ peer.name \in {"A", "B"}
  /\ peer' = [name |-> IF peer.name = "A" THEN "B" ELSE "A",
              mixed |-> peer.mixed \/ (UnderWay(pc) /\ UnderWay(peer.pc)),
              params |-> params, pc |-> pc, executed |-> executed, at |-> at,
              self |-> self, loop |-> loop, results |-> results, outcome |-> outcome]
  /\ params' = peer.params
  /\ pc' = peer.pc
  /\ executed' = peer.executed
  /\ at' = peer.at
  /\ self' = peer.self
  /\ loop' = peer.loop
  /\ results' = peer.results
  /\ outcome' = peer.outcome
  /\ UNCHANGED <<lookup, slot, first, gui>>

NextPair == Next \/ Switch

SpecPair == InitPair /\ [][NextPair]_vars

(***************************************************************************)
(* Runs on every combination of the selectors of winding type, skew,       *)
(* magnetic circuit topology and slot profile, each reaching one past its  *)
(* enumeration.                                                            *)
(***************************************************************************)
MaxLE == 4

SelectorSets ==
  { [MotorParameters EXCEPT !.LE = l, !.sks = k, !.Lev = t, !.CX = c] :
      l \in 0..MaxLE, k \in {"Y", "N"}, t \in {1, 2}, c \in 0..MaxCX }

InitSelectors ==
  /\ \E p \in SelectorSets : Constructed(p)
  /\ lookup = NoLookup
  /\ slot = NoSlot
  /\ first = NoRun
  /\ peer = NoPeer
  /\ gui = NoShell

SpecSelectors == InitSelectors /\ [][Next]_vars

\* The engine on p run alone up to the call of stage k (or to its return).
RECURSIVE RunToStage(_, _, _)
RunToStage(p, st, k) ==
  IF st.pc = "returned" \/ (st.pc = "stage" /\ st.at = k) THEN st
  ELSE RunToStage(p, EngineStep(p, st), k)

\* The call the engine is about to make, run to its end.
NextCall ==
  CASE pc = "stage" /\ at \in DOMAIN StageMethods ->
         Exec(StageMethods[at], params, self, << >>)
    [] pc = "round" ->
         Exec("calculate_no_load_magnetic_circuit: round", params, self,
              "bm01" :> loop.bm01)
    [] pc = "after" ->
         Exec("calculate_no_load_magnetic_circuit: after the loop", params, self,
              [n \in {"bm0", "LUMDAn", "LUMDAm", "FI01", "Ft1", "Ft2"} |-> loop[n]])
    [] pc = "save" -> Exec("save_complete_results", params, self, << >>)
    [] OTHER -> Frame(self, << >>)

\* The attributes the stages before the current one have assigned.
WrittenByEarlierStages ==
  IF pc \in {"round", "after"} THEN DOMAIN RunToStage(params, Fresh, 5).self
  ELSE DOMAIN self

(***************************************************************************)
(* Runs on every magnet selector, one past the enumeration and zero        *)
(* included, at operating temperatures below, at and above 20 degrees.     *)
(***************************************************************************)
MaxMagnet == 3
Temperatures == {Lit(15, 0), Lit(20, 0), Lit(205, -1), Lit(21, 0), Lit(75, 0), Lit(150, 0)}

MagnetSets ==
  { [MotorParameters EXCEPT !.magnet = k, !.t = t] : k \in 0..MaxMagnet, t \in Temperatures }

InitMagnet ==
  /\ \E p \in MagnetSets : Constructed(p)
  /\ lookup = NoLookup
  /\ slot = NoSlot
  /\ first = NoRun
  /\ peer = NoPeer
  /\ gui = NoShell

SpecMagnet == InitMagnet /\ [][Next]_vars

(***************************************************************************)
(* Runs on every winding-type selector, one past the four the branches     *)
(* name, with the full coil pitch of the defaults (y = 9) and a short      *)
(* pitch (y = 7).                                                          *)
(***************************************************************************)
WindingSets ==
  { [MotorParameters EXCEPT !.LE = l, !.y = y] :
      l \in 0..MaxLE, y \in {Lit(7, 0), Lit(9, 0)} }

InitWinding ==
  /\ \E p \in WindingSets : Constructed(p)
  /\ lookup = NoLookup
  /\ slot = NoSlot
  /\ first = NoRun
  /\ peer = NoPeer
  /\ gui = NoShell

SpecWinding == InitWinding /\ [][Next]_vars

(***************************************************************************)
(* The modules steel_tables.py and parameters.py: a second definition of   *)
(* SteelDataTables and of MotorParameters, in the same units as the first. *)
(***************************************************************************)
steel_tables_steel_names ==
  1 :> "DR510-50" @@ 2 :> "DR420-50" @@ 3 :> "DR490-50" @@ 4 :> "DR550-50" @@ 5 :> "DW315-50"

steel_tables_B_data ==
  <<
     40, 45, 50, 55, 60, 65, 70, 75, 80, 85,
     90, 95, 100, 105, 110, 115, 120, 125, 130, 135,
     140, 145, 150, 155, 160, 165, 170, 175, 180, 185,
     190, 195, 200, 205, 210, 215, 220
  >>

steel_tables_H_data_1 ==
  <<
     75, 88, 102, 118, 135, 155, 178, 205, 236, 272,
     314, 363, 420, 486, 563, 653, 758, 880, 1023, 1190,
     1385, 1614, 1882, 2196, 2564, 2995, 3500, 4092, 4785, 5595,
     6540, 7642, 8925, 10420, 12160, 14180, 16530
  >>

steel_tables_H_data_2 ==
  <<
     70, 82, 95, 110, 127, 146, 168, 193, 222, 255,
     293, 337, 388, 447, 516, 596, 689, 798, 925, 1073,
     1246, 1447, 1682, 1955, 2272, 2639, 3065, 3559, 4132, 4796,
     5565, 6453, 7477, 8658, 10020, 11590, 13400
  >>

steel_tables_H_data_3 ==
  <<
     78, 92, 107, 124, 143, 164, 188, 216, 247, 283,
     324, 371, 425, 488, 561, 646, 745, 860, 994, 1150,
     1331, 1540, 1782, 2062, 2386, 2760, 3193, 3693, 4272, 4942,
     5718, 6616, 7655, 8856, 10245, 11850, 13700
  >>

steel_tables_H_data_4 ==
  <<
     85, 100, 117, 136, 157, 181, 208, 239, 274, 314,
     360, 413, 474, 544, 625, 719, 828, 954, 1100, 1268,
     1462, 1686, 1945, 2244, 2590, 2989, 3450, 3982, 4596, 5305,
     6123, 7068, 8160, 9424, 10885, 12575, 14530
  >>

steel_tables_H_data_5 ==
  <<
     80, 95, 110, 125, 140, 160, 180, 200, 225, 250,
     280, 315, 355, 400, 450, 510, 580, 660, 750, 850,
     970, 1100, 1250, 1420, 1620, 1840, 2100, 2400, 2750, 3150,
     3600, 4100, 4700, 5400, 6200, 7100, 8100
  >>

steel_tables_H_data ==
  1 :> steel_tables_H_data_1 @@ 2 :> steel_tables_H_data_2 @@ 3 :> steel_tables_H_data_3 @@ 4 :> steel_tables_H_data_4 @@ 5 :> steel_tables_H_data_5

steel_tables_P_data_1 ==
  <<
     40, 60, 80, 100, 130, 160, 200, 250, 310, 380,
     460, 550, 660, 790, 940, 1120, 1330, 1570, 1850, 2170,
     2540, 2960, 3440, 3990, 4620, 5330, 6140, 7050, 8080, 9240,
     10550, 12020, 13680, 15550, 17650, 20020, 22680
  >>

steel_tables_P_data_2 ==
  <<
     30, 50, 70, 90, 120, 150, 190, 240, 290, 360,
     430, 520, 620, 740, 880, 1040, 1230, 1450, 1700, 1990,
     2320, 2700, 3130, 3620, 4180, 4820, 5540, 6360, 7280, 8320,
     9490, 10810, 12290, 13950, 15820, 17920, 20280
  >>

\* The losses of DR490-50 with the first three entries rounded to 0.1 W/kg.
steel_tables_P_data_3_one_decimal ==
  <<
     50, 70, 90, 110, 140, 170, 210, 260, 320, 390,
     470, 560, 670, 800, 950, 1130, 1340, 1580, 1860, 2180,
     2550, 2970, 3450, 4000, 4630, 5340, 6150, 7070, 8110, 9280,
     10600, 12080, 13740, 15600, 17680, 20010, 22620
  >>

steel_tables_P_data_3 ==
  <<
     45, 65, 85, 110, 140, 170, 210, 260, 320, 390,
     470, 560, 670, 800, 950, 1130, 1340, 1580, 1860, 2180,
     2550, 2970, 3450, 4000, 4630, 5340, 6150, 7070, 8110, 9280,
     10600, 12080, 13740, 15600, 17680, 20010, 22620
  >>

steel_tables_P_data_4 ==
  <<
     50, 70, 90, 120, 150, 190, 230, 280, 340, 410,
     490, 580, 690, 820, 970, 1150, 1360, 1600, 1880, 2200,
     2570, 2990, 3470, 4020, 4650, 5370, 6190, 7120, 8170, 9360,
     10700, 12210, 13900, 15800, 17930, 20320, 23000
  >>

steel_tables_P_data_5 ==
  <<
     50, 70, 90, 120, 150, 190, 240, 300, 370, 450,
     540, 650, 780, 930, 1100, 1290, 1510, 1760, 2040, 2360,
     2720, 3120, 3570, 4070, 4620, 5230, 5900, 6630, 7430, 8300,
     9250, 10280, 11400, 12610, 13920, 15330, 16850
  >>

steel_tables_P_data ==
  1 :> steel_tables_P_data_1 @@ 2 :> steel_tables_P_data_2 @@ 3 :> steel_tables_P_data_3 @@ 4 :> steel_tables_P_data_4 @@ 5 :> steel_tables_P_data_5

\* The arrays of steel_tables.py as the numbers the program reads from them.
steel_tables_BArray == [i \in 1..Len(steel_tables_B_data) |-> NpLit(steel_tables_B_data[i], -2)]
steel_tables_HArray(steel_type) ==
  [i \in 1..Len(steel_tables_H_data[steel_type]) |-> NpLit(steel_tables_H_data[steel_type][i], 0)]
steel_tables_PArray(steel_type) ==
  [i \in 1..Len(steel_tables_P_data[steel_type]) |-> NpLit(steel_tables_P_data[steel_type][i], -2)]

steel_tables_linear_interpolation(x_data, y_data, x) ==
  IF x.k = "err" THEN x
  ELSE IF LessEq(x, x_data[1]) THEN y_data[1]
  ELSE IF LessEq(x_data[Len(x_data)], x) THEN y_data[Len(y_data)]
  ELSE NpInterp(x, x_data, y_data)

steel_tables_get_BH_curve(B, steel_type) ==
  IF steel_type \in DOMAIN steel_tables_H_data
  THEN steel_tables_linear_interpolation(steel_tables_BArray, steel_tables_HArray(steel_type), B)
  ELSE KeyError

steel_tables_get_iron_loss(B, steel_type) ==
  IF steel_type \in DOMAIN steel_tables_P_data
  THEN steel_tables_linear_interpolation(steel_tables_BArray, steel_tables_PArray(steel_type), B)
  ELSE KeyError

steel_tables_get_steel_name(steel_type) ==
  IF steel_type \in DOMAIN steel_tables_steel_names
  THEN steel_tables_steel_names[steel_type] ELSE "unknown"

\* The dataclass of parameters.py: its fields and their defaults.
parameters_MotorParameters ==
  [PN |-> Lit(15, 0), UN |-> Lit(380, 0), m |-> Lit(3, 0), f |-> Lit(50, 0),
   p |-> Lit(2, 0), cosfi |-> Lit(95, -2), eff |-> Lit(935, -3), Tpo |-> Lit(18, -1),
   Ist |-> Lit(9, 0), Tst |-> Lit(2, 0), D1 |-> Lit(260, 0), Di1 |-> Lit(170, 0),
   La |-> Lit(190, 0), g |-> Lit(65, -2), g12 |-> Lit(15, -2), Q1 |-> Lit(36, 0),
   Q2 |-> Lit(32, 0), Di2 |-> Lit(60, 0), b01 |-> Lit(38, -1), h01 |-> Lit(8, -1),
   b1 |-> Lit(77, -1), ALFA1 |-> Lit(30, 0), R1 |-> Lit(51, -1), h12 |-> Lit(152, -1),
   sks |-> "Y", Lv |-> 1, b02 |-> Lit(2, 0), h02 |-> Lit(8, -1),
   br1 |-> Lit(64, -1), br2 |-> Lit(55, -1), hr12 |-> Lit(15, 0), ALFA2 |-> Lit(30, 0),
   AR |-> Lit(180, 0), CX |-> 1, steel_type |-> 5, LE |-> 2,
   a |-> Lit(1, 0), Ns |-> Lit(13, 0), Nt1 |-> Lit(2, 0), d11 |-> Lit(12, -1),
   Nt2 |-> Lit(3, 0), d12 |-> Lit(125, -2), d |-> Lit(15, 0), y |-> Lit(9, 0),
   wgco |-> "Y", Lev |-> 1, magnet |-> 1, Br0 |-> Lit(115, -2),
   Hc0 |-> Lit(875, 0), hM |-> Lit(53, -1), bM |-> Lit(110, 0), LM |-> Lit(190, 0),
   ROUm |-> Lit(7400, 0), SIGMA0 |-> Lit(128, -2), t |-> Lit(75, 0), pfwl |-> Lit(107, -4),
   psl |-> Lit(15, -3), Kq |-> Lit(36, -2)]

(***************************************************************************)
(* SteelDataTables on its own: one lookup at a flux density of a lattice   *)
(* of 0.01 T that reaches below zero and beyond the last grid point.       *)
(***************************************************************************)
BBelow == 10
BAbove == 250
BLattice == (-BBelow)..BAbove

\* The flux density b hundredths of a tesla, as the caller passes it.
Tesla(b) == NpLit(b, -2)

\* A caller about to look up the flux density B for the grade steel_type.
InitSteel ==
  /\ Constructed(MotorParameters)
  /\ \E b \in BLattice, g \in 0..MaxGrade :
       lookup = [NoLookup EXCEPT !.B = b, !.steel_type = g]
  /\ slot = NoSlot
  /\ first = NoRun
  /\ peer = NoPeer
  /\ gui = NoShell

LookupH ==
  /\ lookup.table = "none"
  /\ lookup' = [lookup EXCEPT !.table = "H",
                  !.value = get_BH_curve(Tesla(lookup.B), lookup.steel_type)]
  /\ UNCHANGED <<params, pc, executed, at, self, loop, results, outcome, slot, first, peer, gui>>

LookupP ==
  /\ lookup.table = "none"
  /\ lookup' = [lookup EXCEPT !.table = "P",
                  !.value = get_iron_loss(Tesla(lookup.B), lookup.steel_type)]
  /\ UNCHANGED <<params, pc, executed, at, self, loop, results, outcome, slot, first, peer, gui>>

NextSteel == LookupH \/ LookupP

SpecSteel == InitSteel /\ [][NextSteel]_vars

(***************************************************************************)
(* SlotLeakageCalculator on its own: one rotor slot geometry, and the      *)
(* calls made on it with each profile selector, with the arguments stage 6 *)
(* derives from the geometry.                                              *)
(***************************************************************************)
SlotGeometries ==
  { [MotorParameters EXCEPT !.b02 = b, !.hr12 = h, !.br1 = d1, !.br2 = d2] :
      b  \in {Lit(2, 0), Lit(0, 0)},
      h  \in {Lit(15, 0), Lit(3204, -3)},
      d1 \in {Lit(64, -1), Lit(6, 0)},
      d2 \in {Lit(55, -1), Lit(6, 0)} }

InitSlot ==
  /\ Constructed(MotorParameters)
  /\ lookup = NoLookup
  /\ slot \in {[geometry |-> g, calls |-> << >>] : g \in SlotGeometries}
  /\ first = NoRun
  /\ peer = NoPeer
  /\ gui = NoShell

SlotCall ==
  /\ \E c \in (0..MaxCX) \ DOMAIN slot.calls :
       LET p == [slot.geometry EXCEPT !.CX = c]
       IN  slot' = [slot EXCEPT !.calls =
                      (c :> [branch |-> SlotBranch(c, RotorSlotB12(p)),
                             value  |-> RotorSlotLeakage(p)]) @@ @]
  /\ UNCHANGED <<params, pc, executed, at, self, loop, results, outcome, lookup, first, peer, gui>>

NextSlot == SlotCall

SpecSlot == InitSlot /\ [][NextSlot]_vars

(***************************************************************************)
(* SlotLeakageCalculator on rotor slots whose width ratio br2/br1 is far   *)
(* from 1, inside the tolerance of 1e-4 around 1, on its upper edge, and   *)
(* just outside it, with two opening heights and a zero opening width.     *)
(***************************************************************************)
LowerWidths ==
  {Lit(55, -1), Lit(59988, -4), Lit(59997, -4), Lit(6, 0), Lit(60003, -4),
   Lit(60006, -4), Lit(60012, -4)}

RatioGeometries ==
  { [MotorParameters EXCEPT !.br1 = Lit(6, 0), !.br2 = d2, !.h02 = h, !.b02 = b] :
      d2 \in LowerWidths, h \in {Lit(8, -1), Lit(18, -1)}, b \in {Lit(2, 0), Lit(0, 0)} }

InitRatio ==
  /\ Constructed(MotorParameters)
  /\ lookup = NoLookup
  /\ slot \in {[geometry |-> g, calls |-> << >>] : g \in RatioGeometries}
  /\ first = NoRun
  /\ peer = NoPeer
  /\ gui = NoShell

SpecRatio == InitRatio /\ [][NextSlot]_vars

(***************************************************************************)
(* The desktop shell MotorCalculatorGUI: a session of edits of the form    *)
(* and of clicks on the buttons calculate, export_results and clear_data.  *)
(***************************************************************************)
MaxClicks == 4

\* What the user may have typed into the form: the defaults; a coercivity
\* of 0; a negative mechanical loss coefficient; a rated power that is not
\* a number; a rated power of 0.
ShellForms ==
  {MotorParameters,
   [MotorParameters EXCEPT !.Hc0 = Lit(0, 0)],
   [MotorParameters EXCEPT !.pfwl = Lit(-107, -4)],
   [MotorParameters EXCEPT !.PN = Str("abc")],
   [MotorParameters EXCEPT !.PN = Lit(0, 0)]}

\* update_parameters: var.get() of a DoubleVar whose entry holds no number
\* raises TclError; PN is the first variable read.
UpdateRaises(form) == form.PN.k = "str"

\* display_results: the text the listing is, of the parameters and results.
Listing(p, r) == [kind |-> "listing", params |-> p, results |-> r]

\* The axes after plot_characteristics raised at the pie chart: cleared,
\* the first two drawn from the engine, the canvas not redrawn.
HalfDrawn(p, r) == [kind |-> "half drawn", params |-> p, results |-> r]

\* The wedge sizes plot_characteristics passes to ax3.pie.
LossValues(s) == <<s.pCu, s.pFe, s.pfw, s.ps>>

\* Whether ax3.pie draws (TRUE) or raises ValueError (FALSE): it raises on
\* a negative wedge size, draws positive sizes, and does either on sizes
\* that are not numbers or that sum to nothing.
PieDraws(x) ==
  IF \E i \in 1..Len(x) : x[i].k = "num" /\ Less(x[i], Zero(FALSE)) THEN {FALSE}
  ELSE IF /\ \A i \in 1..Len(x) : x[i].k = "num"
          /\ \E i \in 1..Len(x) : Less(Zero(FALSE), x[i]) THEN {TRUE}
  ELSE {TRUE, FALSE}

\* A session starts with the shell constructed and no engine run.
InitShell ==
  /\ Constructed(MotorParameters)
  /\ lookup = NoLookup
  /\ slot = NoSlot
  /\ first = NoRun
  /\ peer = NoPeer
  /\ gui = NoShell

\* The user replaces the contents of the form.
Edit ==
  /\ gui.clicks < MaxClicks
  /\ \E p \in ShellForms \ {gui.form} :
       gui' = [gui EXCEPT !.form = p, !.did = "edit", !.engine = "none", !.clicks = @ + 1]
  /\ UNCHANGED <<params, pc, executed, at, self, loop, results, outcome, lookup, slot, first,
                 peer>>

\* The shell after the handler calculate, whose engine run ended as e and
\* whose pie chart was drawn or not.
Calculated(e, drawn) ==
  LET g == [gui EXCEPT !.params = gui.form, !.did = "calculate", !.clicks = @ + 1]
  IN  IF ~e.outcome.success
      THEN [g EXCEPT !.engine = "failure", !.shown = "error: calculation error"]
      ELSE IF drawn
      THEN [g EXCEPT !.engine = "success", !.succeeded = @ + 1,
                     !.text = Listing(gui.form, e.results),
                     !.axes = Listing(gui.form, e.results),
                     !.canvas = Listing(gui.form, e.results),
                     !.last_results = [exists |-> TRUE, value |-> e.results],
                     !.shown = "info: calculation complete"]
      ELSE [g EXCEPT !.engine = "success", !.succeeded = @ + 1,
                     !.text = Listing(gui.form, e.results),
                     !.axes = HalfDrawn(gui.form, e.results),
                     !.shown = "error: error"]

calculate ==
  /\ gui.clicks < MaxClicks
  /\ IF UpdateRaises(gui.form)
     THEN /\ gui' = [gui EXCEPT !.did = "calculate", !.engine = "none", !.clicks = @ + 1,
                                !.shown = "error: error"]
          /\ UNCHANGED <<params, pc, executed, at, self, loop, results, outcome>>
     ELSE \E e \in {calculate_all(gui.form)} :
            /\ params' = gui.form
            /\ pc' = e.pc
            /\ executed' = e.executed
            /\ at' = e.at
            /\ self' = e.self
            /\ loop' = e.loop
            /\ results' = e.results
            /\ outcome' = e.outcome
            /\ \E drawn \in (IF e.outcome.success THEN PieDraws(LossValues(e.self))
                              ELSE {FALSE}) :
                 gui' = Calculated(e, drawn)
  /\ UNCHANGED <<lookup, slot, first, peer>>

\* asksaveasfilename returns no name (cancelled), a name that is written
\* (saved) or a name that cannot be opened for writing (unwritable).
export_results ==
  /\ gui.clicks < MaxClicks
  /\ \E dialog \in {"cancelled", "saved", "unwritable"} :
       gui' = LET g == [gui EXCEPT !.did = "export_results", !.engine = "none",
                                   !.clicks = @ + 1]
              IN  IF ~gui.last_results.exists
                  THEN [g EXCEPT !.shown = "warning: calculate first"]
                  ELSE CASE dialog = "cancelled" -> [g EXCEPT !.shown = "save dialog"]
                         [] dialog = "saved" -> [g EXCEPT !.files = @ + 1,
                                                          !.shown = "info: exported"]
                         [] OTHER -> [g EXCEPT !.shown = "error: export failed"]
  /\ UNCHANGED <<params, pc, executed, at, self, loop, results, outcome, lookup, slot, first,
                 peer>>

\* askyesno: on yes the form returns to the defaults and the text and the
\* plots are emptied; on no nothing is touched.
clear_data ==
  /\ gui.clicks < MaxClicks
  /\ \E yes \in BOOLEAN :
       gui' = LET g == [gui EXCEPT !.did = "clear_data", !.engine = "none",
                                   !.clicks = @ + 1, !.shown = "ask: confirm"]
              IN  IF yes
                  THEN [g EXCEPT !.form = MotorParameters, !.text = Blank, !.axes = Blank,
                                 !.canvas = Blank]
                  ELSE g
  /\ UNCHANGED <<params, pc, executed, at, self, loop, results, outcome, lookup, slot, first,
                 peer>>

NextShell == Edit \/ calculate \/ export_results \/ clear_data

SpecShell == InitShell /\ [][NextShell]_vars

(***************************************************************************)
(* Properties                                                              *)
(***************************************************************************)
Returned == pc = "returned"
Completed == outcome.state = "completed"
Failure == outcome.state = "failed"
DefinedGrades == 1..5
DefinedProfiles == 1..4

\* C1: in every run of calculate_all the stages execute in the order 1..11,
\* each at most once and none skipped; a stage starts only when the one
\* before it has returned; the run ends Completed with all eleven done and
\* success, or Failed at the stage that raised, and nothing runs after.
C1_StagesInOrder ==
  /\ [](/\ Len(executed) <= 11
        /\ \A i \in 1..Len(executed) : executed[i] = i
        /\ (Returned <=> (Completed \/ Failure))
        /\ (Completed => Len(executed) = 11 /\ outcome.success)
        /\ (Failure => Len(executed) >= 1 /\ ~outcome.success /\ at = Len(executed)))
  /\ [][/\ (executed' # executed =>
              /\ pc = "stage" /\ at = Len(executed) + 1
              /\ executed' = Append(executed, Len(executed) + 1))
        /\ ~Returned]_vars

\* A run that failed in stage 6 after stages 1..5 returned.
C1_Witness == Failure /\ executed = <<1, 2, 3, 4, 5, 6>>

\* C2: when a run fails, no derived field written by that run is readable,
\* neither in the results bundle nor as an attribute of the engine.
C2_NoPartialStateOnFailure ==
  Failure => DOMAIN self = {} /\ DOMAIN results = {}

\* The dimensions and counts of a parameter record that must be positive.
RequiredPositive ==
  {"PN", "UN", "m", "f", "p", "D1", "Di1", "La", "g", "Q1", "Q2", "Di2",
   "b01", "h01", "b1", "R1", "h12", "b02", "h02", "br1", "br2", "hr12", "AR",
   "a", "Ns", "Br0", "Hc0", "hM", "bM", "LM"}

InvalidInput(p) ==
  \/ p.steel_type \notin DefinedGrades
  \/ p.CX \notin DefinedProfiles
  \/ \E n \in RequiredPositive : ~Less(Zero(FALSE), p[n])

\* C3: a parameter record with an undefined steel grade or slot profile, or
\* a non-positive required dimension, is rejected before stage 1 begins:
\* the run fails and no stage has executed.
C3_RejectedBeforeStage1 ==
  InvalidInput(params) => /\ executed = << >>
                          /\ (Returned => Failure)

\* C4: for every B a field-strength or specific-loss lookup with a grade
\* outside the five defined raises and returns no value, and an engine run
\* configured with such a grade ends Failed, never Completed.
C4_UndefinedGradeFails ==
  /\ \A b \in BLattice, g \in (0..MaxGrade) \ DefinedGrades :
       /\ get_BH_curve(Tesla(b), g).k = "err"
       /\ get_iron_loss(Tesla(b), g).k = "err"
  /\ (params.steel_type \notin DefinedGrades =>
        /\ ~Completed
        /\ (Returned => Failure /\ outcome.detail = ToString(params.steel_type)))

\* A run with grade 6 that returned failure on the KeyError of the lookup.
C4_Witness == params.steel_type = 6 /\ Failure /\ executed = <<1, 2, 3, 4, 5>>

\* The table a lookup reads, as the numbers of the array.
TableOf(l) == IF l.table = "H" THEN HArray(l.steel_type) ELSE PArray(l.steel_type)

LookedUp == lookup.table # "none" /\ lookup.steel_type \in DefinedGrades

\* C5: for every defined grade both lookups clamp: at any B up to the first
\* grid point (0.40 T) the result is the first tabulated value, at any B
\* from the last grid point (2.20 T) on it is the last tabulated value, and
\* no result lies outside the tabulated values.
C5_LookupClamps ==
  LookedUp =>
    LET tab == TableOf(lookup)
    IN  /\ (lookup.B <= 40 => lookup.value = tab[1])
        /\ (lookup.B >= 220 => lookup.value = tab[Len(tab)])
        /\ \E i \in 1..Len(tab) : LessEq(tab[i], lookup.value)
        /\ \E i \in 1..Len(tab) : LessEq(lookup.value, tab[i])

\* A specific-loss lookup below the grid and a field-strength lookup above.
C5_Witness ==
  /\ LookedUp
  /\ \/ lookup.table = "P" /\ lookup.B < 0
     \/ lookup.table = "H" /\ lookup.B > 220

\* C6: for every defined grade and all B1 <= B2, inside or outside the
\* grid, fieldStrength(B1) <= fieldStrength(B2); every grade's tabulated H
\* sequence is non-decreasing along the grid; inside a grid interval the
\* result lies between the two bracketing tabulated values.
C6_FieldStrengthMonotone ==
  (LookedUp /\ lookup.table = "H") =>
    LET g == lookup.steel_type
        H == HArray(g)
    IN  /\ \A b1 \in BLattice :
             b1 <= lookup.B => LessEq(get_BH_curve(Tesla(b1), g), lookup.value)
        /\ \A i \in 1..(Len(H_data[g]) - 1) : H_data[g][i] <= H_data[g][i + 1]
        /\ \A i \in 1..(Len(B_data) - 1) :
             (B_data[i] <= lookup.B /\ lookup.B <= B_data[i + 1]) =>
               LessEq(H[i], lookup.value) /\ LessEq(lookup.value, H[i + 1])

\* A field-strength lookup strictly inside a grid interval.
C6_Witness ==
  /\ LookedUp /\ lookup.table = "H"
  /\ lookup.B > 40 /\ lookup.B < 220 /\ lookup.B % 5 # 0

\* C7: the B grid has exactly 37 strictly ascending points from 0.40 T to
\* 2.20 T in steps of 0.05 T, exactly the grades 1..5 are defined, and each
\* grade's field-strength and specific-loss table has 37 entries, one per
\* grid point.
C7_TablesWellFormed ==
  /\ Len(B_data) = 37
  /\ \A i \in 1..Len(B_data) : B_data[i] = 40 + 5 * (i - 1)
  /\ B_data[Len(B_data)] = 220
  /\ DOMAIN H_data = 1..5 /\ DOMAIN P_data = 1..5 /\ DOMAIN steel_names = 1..5
  /\ \A g \in 1..5 : Len(H_data[g]) = 37 /\ Len(P_data[g]) = 37
  /\ (LookedUp => Len(TableOf(lookup)) = Len(BArray))

\* A lookup on a defined grade at the last grid point.
C7_Witness == LookedUp /\ lookup.B = 220

\* The branches that belong to each profile.
BranchesOf(c) ==
  CASE c = 1 -> {"pear_unit", "pear_ratio"}
    [] c = 2 -> {"half_pear"}
    [] c = 3 -> {"round"}
    [] c = 4 -> {"shoulder_unit", "shoulder_ratio"}
    [] OTHER -> {"fallback"}

OwnBranch ==
  \A c \in DOMAIN slot.calls :
    /\ slot.calls[c].branch \in BranchesOf(c)
    /\ (slot.calls[c].branch = "fallback" <=> c \notin DefinedProfiles)

\* Two defined profiles that returned the same number on the geometry.
Coincide(c1, c2) ==
  /\ c1 # c2
  /\ slot.calls[c1].value.k = "num"
  /\ slot.calls[c1].value = slot.calls[c2].value

\* C8 as stated: on one geometry the four defined profiles return four
\* pairwise distinct values, each from its own branch, and the fallback is
\* taken if and only if CX is outside {1,2,3,4}.
C8_DistinctOnEveryGeometry ==
  /\ OwnBranch
  /\ \A c1, c2 \in DOMAIN slot.calls \cap DefinedProfiles : ~Coincide(c1, c2)

\* C8 amended: each defined profile is computed by its own branch and the
\* fallback is taken if and only if CX is outside {1,2,3,4}, on every
\* geometry; the four values are pairwise distinct on the default geometry.
C8_OwnBranchAndDistinctOnDefault ==
  /\ OwnBranch
  /\ (slot.geometry = MotorParameters =>
        \A c1, c2 \in DOMAIN slot.calls \cap DefinedProfiles : ~Coincide(c1, c2))

\* The default geometry with all four defined profiles called.
C8_Witness ==
  /\ slot.geometry = MotorParameters
  /\ DefinedProfiles \subseteq DOMAIN slot.calls
  /\ \A c \in DefinedProfiles : slot.calls[c].value.k = "num"

StageFiveOver == Len(executed) >= 5 /\ pc \notin {"round", "after"} /\ (pc = "stage" => at > 5)

C11_StopOrDampedUpdate ==
  [][(pc = "round" /\ pc' # "returned") =>
       LET bm_old == loop.bm01
           bm_new == loop'.bm0
       IN  IF Less(Abs((bm_new -- bm_old) // bm_new), Lit(1, -4))
           THEN /\ pc' = "after"
                /\ loop'.converged
                /\ loop'.bm01 = bm_old
                /\ loop'.iteration = loop.iteration
           ELSE /\ ~loop'.converged
                /\ loop'.bm01 = (bm_old ++ bm_new) // Lit(2, 0)
                /\ loop'.iteration = loop.iteration + 1
                /\ (pc' = "round" <=> loop'.iteration < 30)
                /\ (pc' = "after" <=> loop'.iteration = 30)]_vars

\* A run that took damped updates with numbers and then passed the test.
C11_Witness ==
  /\ loop.converged /\ loop.rounds >= 3
  /\ loop.bm01.k = "num" /\ loop.bm0.k = "num"
  /\ ~Equal(loop.bm01, NoLoadInitialEstimate(params))

\* The attributes the part of stage 5 after the loop assigns.
PostLoopFields == {"bm0", "LUMDAn", "LUMDAs", "FI0", "Bg1", "E0", "Kst"}

\* The keys of the results bundle.
ResultKeys == {save_complete_results(i, MotorParameters, << >>, << >>).n : i \in 1..72}

\* C12: when no round of stage 5 passes the test within 30 rounds, stage 5
\* raises nothing and records no sign of it: the operating point stored is
\* the value computed in round 30, the run goes on to stage 6 with the same
\* attributes as a converged run has, and a run that completes returns the
\* same success outcome and the same result keys whether or not the
\* iteration converged.
C12_SilentNonConvergence ==
  /\ [][(pc = "after" /\ ~loop.converged) =>
          /\ loop.rounds = 30
          /\ pc' = "stage" /\ at' = 6
          /\ outcome' = outcome
          /\ self'.bm0 = loop.bm0
          /\ self'.LUMDAn = loop.LUMDAn]_vars
  /\ [][(pc = "after" /\ pc' = "stage") =>
          DOMAIN self' = DOMAIN self \cup PostLoopFields]_vars
  /\ [](Completed =>
          /\ outcome = [state |-> "completed", success |-> TRUE,
                        message |-> "calculation complete", detail |-> ""]
          /\ DOMAIN results = ResultKeys)

\* A run that used all 30 rounds without passing the test, stored the
\* number of round 30 and completed with success.
C12_Witness ==
  /\ Completed /\ outcome.success
  /\ loop.rounds = 30 /\ ~loop.converged
  /\ self.bm0.k = "num" /\ self.bm0 = loop.bm0

\* The reference parameter set: the defaults, among them the values the
\* claims name.
IsReference(p) ==
  /\ p = MotorParameters
  /\ p.Di1 = Lit(170, 0) /\ p.g = Lit(65, -2) /\ p.hM = Lit(53, -1)
  /\ p.SIGMA0 = Lit(128, -2) /\ p.magnet = 1 /\ p.steel_type = 5
  /\ get_steel_name(p.steel_type) = "DW315-50"
  /\ p.PN = Lit(15, 0) /\ p.UN = Lit(380, 0) /\ p.m = Lit(3, 0) /\ p.wgco = "Y"
  /\ p.cosfi = Lit(95, -2) /\ p.eff = Lit(935, -3)

\* C13: on the reference parameter set stage 5 passes the test
\* |bm0 - bm01| / bm0 < 0.0001 in some round not later than round 30, stage 5
\* does not fail, and the bm0 it stores lies strictly between 0 and 1.
C13_ReferenceConverges ==
  (IsReference(params) /\ StageFiveOver) =>
    /\ ~Failure
    /\ loop.converged
    /\ loop.rounds >= 1 /\ loop.rounds <= 30
    /\ Less(loop.change, Tolerance)
    /\ self.bm0 = loop.bm0
    /\ Less(Zero(FALSE), self.bm0) /\ Less(self.bm0, Lit(1, 0))

\* The reference run past stage 5, converged in round 10 at bm0 = 0.3352.
C13_Witness ==
  /\ IsReference(params) /\ StageFiveOver
  /\ loop.rounds = 10
  /\ RoundTo(self.bm0, 4) = NpLit(3352, -4)

\* C14: a second run of the pipeline on the same parameter record, made on
\* the engine that already holds the attributes and results of the first
\* run, executes the same stages and returns the same outcome, and leaves
\* the same attributes and the same results bundle as the first run did on
\* the fresh engine: nothing a run computes depends on what an earlier run
\* left.
C14_SecondRunIdentical ==
  (first.made /\ Returned) =>
    /\ outcome = first.outcome
    /\ executed = first.executed
    /\ loop = first.loop
    /\ self = first.self
    /\ results = first.results

\* A second run that completed on an engine whose first run had completed,
\* and one that failed in stage 5 as the first had.
C14_Witness ==
  /\ first.made /\ Returned
  /\ \/ Completed /\ first.outcome.success /\ first.self.bm0.k = "num"
     \/ Failure /\ first.executed = <<1, 2, 3, 4, 5>>

\* What stage 1 computes on the parameter record p of a fresh engine.
PhaseVoltage(p) == Exec("calculate_basic_parameters", p, << >>, << >>).locals.UN_calc
RatedCurrent(p) == Exec("calculate_basic_parameters", p, << >>, << >>).self.IN

\* |a - b| <= tol * |b|
RelClose(a, b, tol) == LessEq(Abs(a -- b), tol ** Abs(b))

\* C15 as stated: with power, power factor, efficiency and phase count
\* fixed, the rated current of the delta winding at line voltage V equals
\* the rated current of the star winding at V * sqrt(3).
C15_StarDeltaEqual ==
  \A V \in Voltages :
    (params = DeltaAt(V) /\ "IN" \in DOMAIN self) =>
       Equal(self.IN, RatedCurrent(StarAt(V)))

\* C15 amended: the two rated currents agree up to the rounding of the
\* floating-point operations (a relative difference below 0.000001), and
\* exactly at 100, 200, 400 and 1000 V; the star winding takes the line
\* voltage divided by sqrt(3) as its phase voltage and the delta winding
\* the line voltage unchanged.
C15_StarDeltaClose ==
  /\ \A V \in Voltages :
       /\ (params = DeltaAt(V) /\ "IN" \in DOMAIN self) =>
             /\ RelClose(self.IN, RatedCurrent(StarAt(V)), Lit(1, -6))
             /\ (V \in {100, 200, 400, 1000} => Equal(self.IN, RatedCurrent(StarAt(V))))
       /\ (params = StarAt(V) /\ "IN" \in DOMAIN self) =>
             RelClose(self.IN, RatedCurrent(DeltaAt(V)), Lit(1, -6))
  /\ ("IN" \in DOMAIN self /\ params.wgco = "J") =>
       /\ PhaseVoltage(params) = params.UN
       /\ RelClose(self.IN, RatedCurrent([params EXCEPT !.wgco = "Y", !.UN = @ ** Sqrt3]),
                   Lit(1, -6))
  /\ ("IN" \in DOMAIN self /\ params.wgco = "Y") =>
       /\ PhaseVoltage(params) = params.UN // NpSqrt3
       /\ RelClose(self.IN, RatedCurrent([params EXCEPT !.wgco = "J", !.UN = @ // Sqrt3]),
                   Lit(1, -6))

\* Stage 1 has run on the delta winding at 690 V, where the two currents
\* are close and differ in their last digit.
C15_Witness ==
  /\ params = DeltaAt(690)
  /\ "IN" \in DOMAIN self /\ self.IN.k = "num" /\ ~IsZero(self.IN)
  /\ ~Equal(self.IN, RatedCurrent(StarAt(690)))
  /\ RelClose(self.IN, RatedCurrent(StarAt(690)), Lit(1, -6))

\* The five loss attributes stage 9 assigns.
LossFields == {"pCu", "pFe", "pfw", "ps", "pSum"}

\* C16: in every state in which stage 9 has produced the total loss, pSum
\* equals (as numbers compare) copper loss + iron loss + mechanical loss +
\* stray loss, and no later step changes any of the five attributes.
C16_LossDecomposition ==
  /\ []("pSum" \in DOMAIN self =>
          Equal(self.pSum, ((self.pCu ++ self.pFe) ++ self.pfw) ++ self.ps))
  /\ [][("pSum" \in DOMAIN self) => \A n \in LossFields : self'[n] = self[n]]_vars

\* C17 as stated: for the reference parameter set (15 kW, 380 V, 3 phases,
\* star, power factor 0.95, efficiency 0.935) the run succeeds and the rated
\* current lies between 26 A and 28 A.
C17_ReferenceCurrentRange ==
  (IsReference(params) /\ Returned) =>
    /\ Completed /\ outcome.success
    /\ LessEq(Lit(26, 0), self.IN) /\ LessEq(self.IN, Lit(28, 0))

\* C17: for the reference parameter set the run succeeds and the rated
\* current is IN = PN*1000 / (m * (UN/sqrt(3)) * eff * cosfi) = 25.66 A,
\* which lies between 25 A and 26 A.
C17_ReferenceCurrent ==
  (IsReference(params) /\ Returned) =>
    /\ Completed /\ outcome.success
    /\ self.IN = (params.PN ** Lit(1000, 0)) //
                   (((params.m ** (params.UN // NpSqrt3)) ** params.eff) ** params.cosfi)
    /\ RoundTo(self.IN, 2) = NpLit(2566, -2)
    /\ Less(Lit(25, 0), self.IN) /\ Less(self.IN, Lit(26, 0))

C17_Witness ==
  /\ IsReference(params) /\ Completed /\ Len(executed) = 11
  /\ RoundTo(self.IN, 3) = NpLit(25657, -3)

\* The argument stage 11 hands to the arcsine: P_out / (m * E0 * IN / sqrt(3)).
ArcsineArgument ==
  (params.PN ** Lit(1000, 0)) //
    (((params.m ** self.E0) ** self.IN) // NpSqrt3)

\* C18: a run in which the argument of the arcsine of stage 11 has a
\* magnitude above 1 ends Failed with a failure outcome; it never ends
\* Completed with success.
C18_DomainErrorFails ==
  (Returned /\ {"E0", "IN"} \subseteq DOMAIN self /\ OutsideUnit(ArcsineArgument)) =>
    /\ Failure /\ ~outcome.success
    /\ ~Completed

\* The ways a diagnostic can name stage k: its number as calculate_all
\* announces it, or the name of its method.
StageLabels(k) ==
  {ToString(k),
   IF k = 5 THEN "calculate_no_load_magnetic_circuit" ELSE StageMethods[k]}

\* C19: every failure outcome returned by calculate_all identifies the
\* stage in which the failure occurred: when stage k raised, the message or
\* the detail of the outcome names stage k.
C19_FailureNamesStage ==
  (Returned /\ Failure) =>
    /\ at \in 1..11 /\ executed # << >> /\ executed[Len(executed)] = at
    /\ \/ outcome.detail \in StageLabels(at)
       \/ outcome.message \in StageLabels(at)

\* C20: calculate_all and every stage it runs leave the parameter record
\* unchanged: no step of a run writes a field of params, whether the run
\* completes or fails, so the record is still the one the engine was
\* constructed with.
C20_ParamsUnchanged ==
  /\ [][params' = params]_vars
  /\ [](params \in ParamSets /\ DOMAIN params = DOMAIN MotorParameters)

C20_Witness ==
  /\ Returned /\ Failure /\ executed = <<1, 2, 3, 4, 5>>
  /\ params.steel_type \notin DefinedGrades
  /\ params = [MotorParameters EXCEPT !.steel_type = params.steel_type]

\* The instance that is not running, as an engine record.
PeerEngine == [n \in DOMAIN Fresh |-> peer[n]]

\* C21: two engine instances, each on its own parameter record, whose steps
\* are interleaved in any order produce exactly what each produces when run
\* alone: a step of the running instance is the step that instance takes
\* alone, determined by its own record and state, and leaves the other
\* instance as it was; a switch changes neither; and when both have
\* returned, outcome, attributes and results of each are those of
\* calculate_all run alone on its record.
C21_InterleavedAsAlone ==
  /\ [][peer'.name = peer.name =>
          /\ peer' = peer
          /\ params' = params
          /\ Engine' = EngineStep(params, Engine)]_vars
  /\ [][peer'.name # peer.name =>
          /\ PeerEngine' = Engine /\ peer'.params = params
          /\ Engine' = PeerEngine /\ params' = peer.params]_vars
  /\ []((Returned /\ peer.pc = "returned") =>
          /\ Engine = calculate_all(params)
          /\ PeerEngine = calculate_all(peer.params))

C21_Witness ==
  /\ Returned /\ peer.pc = "returned" /\ peer.mixed
  /\ params # peer.params
  /\ Completed /\ DOMAIN results = ResultKeys
  /\ peer.outcome.state = "failed" /\ peer.executed = <<1, 2, 3, 4, 5>>

\* C22: calculate_all never propagates an exception to its caller.  A run
\* returns either the failure pair (success false, the fixed prefix and
\* the text of the exception) or the success pair (success true); an
\* exception raised by a stage ends the run with the failure pair at that
\* stage; success comes only with all eleven stages done and the bundle
\* saved; no stage is started twice and nothing runs after the return.
C22_NeverPropagates ==
  /\ [](outcome.state # "raised")
  /\ [](Returned =>
          /\ outcome.state \in {"completed", "failed"}
          /\ outcome.success <=> Completed
          /\ Engine = calculate_all(params)
          /\ Failure => /\ outcome.message = "calculation error"
                         /\ \E c \in ExceptionClasses :
                              outcome.detail = ExceptionText(c, params)
                         /\ executed # << >> /\ executed[Len(executed)] = at
                         /\ results = << >>
          /\ Completed => executed = <<1, 2, 3, 4, 5, 6, 7, 8, 9, 10, 11>> /\ results # << >>)
  /\ [](\A i, j \in DOMAIN executed : executed[i] = executed[j] => i = j)
  /\ [][~Returned]_vars

C22_Witness ==
  /\ Returned /\ Failure /\ ~outcome.success
  /\ outcome.detail = ExceptionText("KeyError", params)
  /\ executed = <<1, 2, 3, 4, 5>> /\ loop.rounds = 1

\* C23: in the order run by calculate_all, for every combination of the
\* selectors of winding type, skew, topology and slot profile, no stage
\* reads a derived field that has not been written (the read would raise
\* AttributeError), and no stage assigns a field that an earlier stage has
\* assigned.
C23_ReadAfterWriteWriteOnce ==
  /\ Failure => outcome.detail # ExceptionText("AttributeError", params)
  /\ \A call \in {NextCall} :
       /\ ~(call.raised /\ call.exc = "AttributeError")
       /\ call.wrote \cap WrittenByEarlierStages = {}
       /\ pc = "save" => call.wrote = {}

C23_Witness ==
  /\ Completed /\ executed = <<1, 2, 3, 4, 5, 6, 7, 8, 9, 10, 11>>
  /\ params.LE = 0 /\ params.sks = "N" /\ params.Lev = 2 /\ params.CX = 3
  /\ {"Ksk1", "X1", "X2", "bmh_actual"} \subseteq DOMAIN self

\* The factor 1 + c * (t - 20) of a linear temperature correction.
Correction(c, t) == Lit(1, 0) ++ (c ** (t -- Lit(20, 0)))

\* C24: once stage 4 has run at an operating temperature t > 20, with a
\* rare-earth magnet (magnet = 1) remanence and coercivity are both scaled
\* by the same factor 1 - 0.0012*(t-20), which is below 1; with any other
\* magnet value remanence is scaled by 1 - 0.0019*(t-20), below 1, and
\* coercivity by 1 + 0.004*(t-20), above 1.
C24_TemperatureCorrection ==
  ({"Br", "Hc"} \subseteq DOMAIN self /\ Less(Lit(20, 0), params.t)) =>
    IF params.magnet = 1
    THEN /\ self.Br = Correction(Lit(-12, -4), params.t) ** params.Br0
         /\ self.Hc = (Correction(Lit(-12, -4), params.t) ** params.Hc0) ** Lit(1000, 0)
         /\ Less(Correction(Lit(-12, -4), params.t), Lit(1, 0))
         /\ Less(self.Br, params.Br0)
         /\ Less(self.Hc, params.Hc0 ** Lit(1000, 0))
    ELSE /\ self.Br = Correction(Lit(-19, -4), params.t) ** params.Br0
         /\ self.Hc = (Correction(Lit(4, -3), params.t) ** params.Hc0) ** Lit(1000, 0)
         /\ Less(Correction(Lit(-19, -4), params.t), Lit(1, 0))
         /\ Less(Lit(1, 0), Correction(Lit(4, -3), params.t))
         /\ Less(self.Br, params.Br0)
         /\ Less(params.Hc0 ** Lit(1000, 0), self.Hc)

C24_Witness ==
  /\ params.magnet = 2 /\ params.t = Lit(75, 0)
  /\ executed = <<1, 2, 3, 4>>
  /\ self.Br = Lit(1029825, -6)
  /\ self.Hc = Lit(10675, 2)

\* The polynomial and the ratio branch of the two profiles that have both.
UnitBranch(c) == IF c = 1 THEN "pear_unit" ELSE "shoulder_unit"
RatioBranch(c) == IF c = 1 THEN "pear_ratio" ELSE "shoulder_ratio"

\* C25: for the pear-shaped (CX = 1) and the inclined-shoulder round
\* (CX = 4) profile the polynomial branch is taken exactly when the width
\* ratio B12 satisfies |B12 - 1| <= 1e-4, and the ratio branch otherwise;
\* the polynomial value does not depend on the ratio; and in both branches
\* of both profiles the result contains the additive term h02/b02: a zero
\* b02 raises, and an opening higher by 1 raises the result by 1/b02.
C25_RatioBranches ==
  \A c \in DOMAIN slot.calls \cap {1, 4} :
    \A g \in {[slot.geometry EXCEPT !.CX = c]} :
      /\ slot.calls[c].branch \in {UnitBranch(c), RatioBranch(c)}
      /\ slot.calls[c].branch = UnitBranch(c)
           <=> LessEq(Abs(RotorSlotB12(g) -- Lit(1, 0)), Lit(1, -4))
      /\ slot.calls[c].branch = UnitBranch(c)
           => slot.calls[c].value = RotorSlotLeakage([g EXCEPT !.br2 = g.br1])
      /\ (slot.calls[c].branch = RatioBranch(c) /\ ~IsZero(g.b02))
           => ~Equal(slot.calls[c].value, RotorSlotLeakage([g EXCEPT !.br2 = g.br1]))
      /\ IF IsZero(g.b02)
         THEN slot.calls[c].value = ZeroDivisionError
         ELSE /\ slot.calls[c].value.k = "num"
              /\ RelClose(RotorSlotLeakage([g EXCEPT !.h02 = g.h02 ++ Lit(1, 0)])
                            -- slot.calls[c].value,
                          Lit(1, 0) // g.b02, Lit(1, -6))

\* A slot on the upper edge of the tolerance (B12 = 1.0001) and one just
\* outside it would differ; this is the one on the edge, both profiles
\* called and both on the polynomial branch.
C25_Witness ==
  /\ slot.geometry.br2 = Lit(60006, -4) /\ slot.geometry.b02 = Lit(2, 0)
  /\ {1, 4} \subseteq DOMAIN slot.calls
  /\ slot.calls[1].branch = "pear_unit" /\ slot.calls[4].branch = "shoulder_unit"
  /\ slot.calls[1].value.k = "num" /\ slot.calls[4].value.k = "num"

\* Stage 6, run to its end with result r, computed the end-winding leakage
\* XE1 by the double-layer formula 1.2 * (d + 0.5*fd) / (La + 2g) * Cx.
EndLeakageDoubleLayer(r) ==
  r.locals.XE1 =
    ((Lit(12, -1) ** (params.d ++ (Lit(5, -1) ** r.self.fd)))
       // (params.La ++ (Lit(2, 0) ** params.g))) ** r.locals.Cx

\* Stage 6 took the end-turn coefficient sss from the double-layer formula
\* and not from the constants of the single-layer windings.
EndTurnDoubleLayer(r) == r.locals.sss \notin {Lit(58, -2), Lit(6, -1), Lit(625, -3)}

\* Stage 2 computed the pitch factor from the coil pitch y (double-layer
\* rule) and not from a full pitch.
PitchDoubleLayer ==
  self.Kp1 = NpSin(((params.y // (params.m ** (params.Q1 // ((Lit(2, 0) ** params.m)
                      ** params.p)))) ** PAI) // Lit(2, 0))

\* C26: for every winding-type selector LE stages 2 and 6 classify the
\* winding consistently: when stage 6 runs, its end-winding leakage term
\* is the double-layer formula exactly when LE is not in {1,2,3}, which is
\* exactly when the end-turn coefficient and (on a short-pitched winding)
\* the pitch factor were computed with the double-layer rule.
C26_WindingClassifiedConsistently ==
  (pc = "stage" /\ at = 6) =>
    \A r \in {NextCall} :
      ~r.raised =>
        /\ EndLeakageDoubleLayer(r) <=> params.LE \notin {1, 2, 3}
        /\ EndLeakageDoubleLayer(r) <=> EndTurnDoubleLayer(r)
        /\ params.y = Lit(7, 0) => (EndLeakageDoubleLayer(r) <=> PitchDoubleLayer)

\* A bundle with every entry of each of the ten groups.
CompleteBundle(b) ==
  /\ Cardinality(DOMAIN GroupEntries) = 10 /\ DOMAIN GroupEntries = ResultGroups
  /\ \A g \in DOMAIN GroupEntries : GroupEntries[g] # {} /\ GroupEntries[g] \subseteq DOMAIN b
  /\ DOMAIN b = UNION {GroupEntries[g] : g \in DOMAIN GroupEntries}
  /\ DOMAIN b = ResultKeys

\* C27: the results bundle is empty from construction until
\* save_complete_results runs, which happens only after all eleven stages
\* have returned without raising; it is assigned in one step; so what a
\* caller can observe is the empty bundle, the complete bundle of an
\* earlier successful run (while a later call is under way or has failed),
\* or a complete bundle with all ten groups, never a partly filled one.
C27_BundleEmptyOrComplete ==
  /\ [](results = << >> \/ CompleteBundle(results))
  /\ []((~first.made /\ ~Returned) => results = << >>)
  /\ []((~first.made /\ results # << >>) =>
          Completed /\ executed = <<1, 2, 3, 4, 5, 6, 7, 8, 9, 10, 11>>)
  /\ []((first.made /\ ~Completed) => results = first.results)
  /\ []((Returned /\ Failure /\ ~first.made) => results = << >>)
  /\ [][results' # results =>
          /\ pc = "save" /\ pc' = "returned"
          /\ executed = <<1, 2, 3, 4, 5, 6, 7, 8, 9, 10, 11>>
          /\ results = << >> /\ CompleteBundle(results')]_vars

\* A second call under way, in the loop of stage 5, on an engine that still
\* shows the complete bundle of the first call.
C27_Witness ==
  /\ first.made /\ first.outcome.success
  /\ pc = "round" /\ executed = <<1, 2, 3, 4, 5>>
  /\ results = first.results /\ CompleteBundle(results)

\* x is a number strictly between lo and hi.
Inside(x, lo, hi) == x.k = "num" /\ Less(lo, x) /\ Less(x, hi)

\* Magnet thickness, airgap and leakage factor of the record are positive.
PositiveCircuit(p) ==
  /\ Less(Zero(FALSE), p.hM) /\ Less(Zero(FALSE), p.g) /\ Less(Zero(FALSE), p.SIGMA0)

\* C28: with positive magnet thickness, airgap and leakage factor and a
\* positive total potential drop SUMF in every round, the iterate of stage
\* 5 stays strictly inside (0,1): the initial estimate is in (0,0.95), and
\* a round that starts from an iterate in (0,1) and finds a positive SUMF
\* computes a bm0 in (0,1) and a damped update in (0,1).
C28_IterateInsideUnit ==
  (pc = "round" /\ PositiveCircuit(params)) =>
    /\ loop.rounds = 0 => Inside(loop.bm01, Zero(FALSE), Lit(95, -2))
    /\ \A r \in {NextCall} :
         (/\ Inside(loop.bm01, Zero(FALSE), Lit(1, 0))
          /\ ~r.raised
          /\ Less(Zero(FALSE), r.locals.SUMF)) =>
           /\ Inside(r.locals.bm0, Zero(FALSE), Lit(1, 0))
           /\ Inside(DampedUpdate(loop.bm01, r.locals.bm0), Zero(FALSE), Lit(1, 0))

\* C29: the two definitions of the steel tables are equivalent: for every
\* grade 1..5 and every flux density B, get_BH_curve, get_iron_loss and
\* get_steel_name of PMSM_Calculator.py return what those of
\* steel_tables.py return; and the two MotorParameters definitions have
\* the same fields with the same default values.
C29_DefinitionsEquivalent ==
  /\ lookup.steel_type \in 1..5 =>
       /\ lookup.table = "H" =>
            lookup.value = steel_tables_get_BH_curve(Tesla(lookup.B), lookup.steel_type)
       /\ lookup.table = "P" =>
            lookup.value = steel_tables_get_iron_loss(Tesla(lookup.B), lookup.steel_type)
       /\ get_BH_curve(Tesla(lookup.B), lookup.steel_type)
            = steel_tables_get_BH_curve(Tesla(lookup.B), lookup.steel_type)
       /\ get_iron_loss(Tesla(lookup.B), lookup.steel_type)
            = steel_tables_get_iron_loss(Tesla(lookup.B), lookup.steel_type)
       /\ get_steel_name(lookup.steel_type) = steel_tables_get_steel_name(lookup.steel_type)
  /\ DOMAIN params = DOMAIN parameters_MotorParameters
  /\ \A n \in DOMAIN params : params[n] = parameters_MotorParameters[n]

\* A loss looked up between two grid points of DR490-50, below 0.45 T,
\* where the table has entries of two decimals: both definitions answer
\* 0.53 W/kg.
C29_Witness ==
  /\ lookup.table = "P" /\ lookup.steel_type = 3 /\ lookup.B = 42
  /\ lookup.value = steel_tables_get_iron_loss(Tesla(42), 3)
  /\ Equal(lookup.value, Lit(53, -2))
  /\ params = parameters_MotorParameters

\* C30: in the desktop shell, over any sequence of calculate, clear_data
\* and export_results: last_results is set only by a calculate whose engine
\* run reported success, and is never cleared afterwards; export_results
\* shows the "calculate first" warning and writes no file exactly when no
\* engine run has yet reported success in the session; and a calculate that
\* fails (ends in an error dialog) leaves the results text and the
\* displayed plots unchanged.
C30_ShellSession ==
  [][/\ gui'.last_results # gui.last_results =>
          /\ gui'.did = "calculate" /\ gui'.engine = "success"
          /\ gui'.last_results = [exists |-> TRUE, value |-> results']
     /\ gui.last_results.exists => gui'.last_results.exists
     /\ gui'.did = "export_results" =>
          ((gui'.shown = "warning: calculate first" /\ gui'.files = gui.files)
             <=> gui.succeeded = 0)
     /\ (gui'.did = "calculate"
           /\ gui'.shown \in {"error: calculation error", "error: error"}) =>
          /\ gui'.text = gui.text
          /\ gui'.canvas = gui.canvas]_vars

====
